---- MODULE Spec2Model ----
(***************************************************************************)
(* A model of the braviaproapi client: the JSON-RPC transport (Http), the  *)
(* lazy session initializer (BraviaClient.initialize), the domain facades  *)
(* that pass through it, and the encryption channel (Encryption).          *)
(*                                                                         *)
(* One action models one public call on one client, from entry to return   *)
(* or raise.  The device is the environment: every request the call sends  *)
(* is answered by an Answer chosen with \E.                                *)
(***************************************************************************)
EXTENDS Integers, Sequences, FiniteSets, TLC

VARIABLES
    request_id,                 \* Http.request_id, as seen through the instance
    initialized,                \* BraviaClient.__initialized
    aes_common_key,             \* Encryption.aes_common_key
    aes_initialization_vector,  \* Encryption.aes_initialization_vector
    sent_ids,                   \* history: the "id" of every JSON-RPC payload posted, in order
    init_sent,                  \* history: getInterfaceInformation requests posted by initialize()
    init_failed,                \* history: initialize() calls that raised
    rsa_returned,               \* history: what get_rsa_encrypted_common_key calls returned so far
    last,                       \* history: the last public call, what it posted and how it ended
    class_request_id,           \* the class attribute Http.request_id
    self_request_id,            \* per Http instance: the instance attribute request_id, if set
    callers,                    \* per caller of Http.request: where it is in the method
    wire,                       \* history: the JSON-RPC payloads posted by the callers, in order
    raced                       \* history: the instances two callers have been inside at once

client_vars == <<request_id, initialized, aes_common_key, aes_initialization_vector,
                 sent_ids, init_sent, init_failed, rsa_returned, last>>
caller_vars == <<class_request_id, self_request_id, callers, wire, raced>>
vars == <<request_id, initialized, aes_common_key, aes_initialization_vector,
          sent_ids, init_sent, init_failed, rsa_returned, last,
          class_request_id, self_request_id, callers, wire, raced>>

(***************************************************************************)
(* Bounds of the model.                                                    *)
(***************************************************************************)
\* Public calls are taken while fewer than MaxRequests JSON-RPC requests were posted.
MaxRequests == 3

\* Http.request calls the concurrent callers complete, all callers together.
MaxPosts == 4

(***************************************************************************)
(* Python values.  An optional (None or x) is a sequence of length 0 or 1. *)
(* A str is a sequence of one-character strings, or of code points where   *)
(* the encoding matters.                                                   *)
(***************************************************************************)
NoCode == <<>>
Code(c) == <<c>>

\* A field of a JSON object: absent, null, a string or an integer.
AbsentF == [p |-> "absent", s |-> <<>>]
NullF == [p |-> "null", s |-> <<>>]
StrF(str) == [p |-> "str", s |-> str]
IntF(n) == [p |-> "int", s |-> <<n>>]

\* The JSON values the device puts in "result" arrays: objects with these fields
\* or, with elements holding one sequence, an array of such objects.
Obj(iv, pk) ==
    [interfaceVersion |-> iv, publicKey |-> pk, text |-> AbsentF, count |-> AbsentF,
     title |-> AbsentF, uri |-> AbsentF, icon |-> AbsentF, index |-> AbsentF, elements |-> <<>>]
EmptyObj == Obj(AbsentF, AbsentF)
InfoObj(v) == Obj(v, AbsentF)
KeyObj(k) == Obj(AbsentF, k)
TextObj(t) == [EmptyObj EXCEPT !.text = t]
CountObj(c) == [EmptyObj EXCEPT !.count = c]
AppObj(title, uri, icon) == [EmptyObj EXCEPT !.title = title, !.uri = uri, !.icon = icon]
ArrayOf(os) == [EmptyObj EXCEPT !.elements = <<os>>]
ContentObj(index, title, uri) == [EmptyObj EXCEPT !.index = index, !.title = title, !.uri = uri]

\* What a call returns: None, one JSON object, a list of them, or a str.
PyNone == [t |-> "None", items |-> <<>>, s |-> <<>>]
PyDict(o) == [t |-> "dict", items |-> <<o>>, s |-> <<>>]
PyList(os) == [t |-> "list", items |-> os, s |-> <<>>]
PyStr(str) == [t |-> "str", items |-> <<>>, s |-> str]
PyInt(n) == [t |-> "int", items |-> <<>>, s |-> <<n>>]

\* "Only({ e(x) : x \in {v} })" is e(x) where x is v, with v computed once.
Only(S) == CHOOSE x \in S : TRUE

\* How a call ends.
Return(v) == [kind |-> "return", exc |-> "", error_code |-> NoCode, text |-> <<>>, val |-> v]
Raise(e, text) == [kind |-> "raise", exc |-> e, error_code |-> NoCode, text |-> text, val |-> PyNone]

\* ApiError and its subclasses (errors/apierror.py).
ApiErrors == {"ApiError", "EncryptionError", "TargetNotSupportedError", "LanguageNotSupportedError",
              "VolumeOutOfRangeError", "AppLaunchError", "NoFocusedTextFieldError", "InvalidStateError"}

\* HttpError.__init__ stores error_code; str(err) is the message, kept by
\* BaseException.__new__ in args.
HttpError(message, error_code) ==
    [kind |-> "raise", exc |-> "HttpError", error_code |-> error_code, text |-> message, val |-> PyNone]

(***************************************************************************)
(* The device's answers.                                                   *)
(***************************************************************************)
NoError == <<>>
ResultAbsent == [t |-> "absent", items |-> <<>>]
ResultNotList == [t |-> "notlist", items |-> <<>>]
ResultList(os) == [t |-> "list", items |-> os]

Body(error, result) == [json |-> TRUE, error |-> error, result |-> result]
Undecodable == [json |-> FALSE, error |-> NoError, result |-> ResultAbsent]

Answer(net, status, body) == [net |-> net, status |-> status, body |-> body]
Ok(body) == Answer("ok", 200, body)
OkResult(os) == Ok(Body(NoError, ResultList(os)))
OkError(c, m) == Ok(Body(<<c, m>>, ResultAbsent))

\* The vendor error bodies the device answers with: [code, message].
IllegalArgument == <<3, "Illegal Argument">>
IllegalState == <<7, "Illegal State">>
KeyDoesNotExist == <<42400, "Key does not exist">>
Unmapped == <<9999, "Vendor specific">>

\* requests.post raised, whatever the device would have said.
NetFailure(net) == Answer(net, 0, Undecodable)

\* Answers the device can give to any request.
CommonAnswers ==
    { NetFailure("Timeout"), NetFailure("ConnectionError"), NetFailure("OtherRequestException"),
      Answer("ok", 500, Body(IllegalState, ResultAbsent)),
      Ok(Undecodable),
      Ok(Body(IllegalArgument, ResultAbsent)),
      Ok(Body(IllegalState, ResultAbsent)),
      Ok(Body(Unmapped, ResultAbsent)),
      Ok(Body(IllegalArgument, ResultList(<<EmptyObj>>))),
      Ok(Body(NoError, ResultAbsent)),
      Ok(Body(NoError, ResultNotList)),
      OkResult(<<>>),
      OkResult(<<EmptyObj>>),
      OkResult(<<EmptyObj, EmptyObj>>) }

(***************************************************************************)
(* Http (bravia/http.py)                                                   *)
(***************************************************************************)
\* The message of the HttpError raised for an "error" body:
\* "{0} (error {1})".format(response["error"][1], response["error"][0])
ErrorText(error) == <<error[2], " (error ", ToString(error[1]), ")">>

\* A response check that reads the body before the status.
Respond_BodyBeforeStatus(ans) ==
    IF ans.net = "Timeout" THEN HttpError(<<"The request timed out.">>, NoCode)
    ELSE IF ans.net = "ConnectionError" THEN HttpError(<<"A connection error occurred">>, NoCode)
    \* "except requests.exceptions.RequestsException": the attribute does not exist
    ELSE IF ans.net # "ok" THEN Raise("AttributeError", <<"RequestsException">>)
    \* "response.text()" in the handler reads the local the failed assignment left unbound
    ELSE IF ~ans.body.json THEN Raise("UnboundLocalError", <<"response">>)
    ELSE IF ans.body.error # NoError
        THEN HttpError(ErrorText(ans.body.error), Code(ans.body.error[1]))
    ELSE IF ans.status # 200 THEN HttpError(<<"Unexpected status code ", ToString(ans.status)>>, NoCode)
    ELSE IF ans.body.result.t = "absent" THEN HttpError(<<"The API response was malformed">>, NoCode)
    ELSE IF ans.body.result.t # "list" THEN Raise("ValueError", <<"unexpected format">>)
    ELSE IF Len(ans.body.result.items) = 0 THEN Return(PyNone)
    ELSE IF Len(ans.body.result.items) > 1 THEN Return(PyList(ans.body.result.items))
    ELSE Return(PyDict(ans.body.result.items[1]))

\* Http.request from the response on: what the call returns or raises.
Respond(ans) ==
    IF ans.net = "Timeout" THEN HttpError(<<"The request timed out.">>, NoCode)
    ELSE IF ans.net = "ConnectionError" THEN HttpError(<<"A connection error occurred">>, NoCode)
    \* "except requests.exceptions.RequestsException": the attribute does not exist
    ELSE IF ans.net # "ok" THEN Raise("AttributeError", <<"RequestsException">>)
    ELSE IF ans.status # 200 THEN HttpError(<<"Unexpected status code ", ToString(ans.status)>>, NoCode)
    \* "response.text()" in the handler reads the local the failed assignment left unbound
    ELSE IF ~ans.body.json THEN Raise("UnboundLocalError", <<"response">>)
    ELSE IF ans.body.error # NoError
        THEN HttpError(ErrorText(ans.body.error), Code(ans.body.error[1]))
    ELSE IF ans.body.result.t = "absent" THEN HttpError(<<"The API response was malformed">>, NoCode)
    ELSE IF ans.body.result.t # "list" THEN Raise("ValueError", <<"unexpected format">>)
    ELSE IF Len(ans.body.result.items) = 0 THEN Return(PyNone)
    ELSE IF Len(ans.body.result.items) > 1 THEN Return(PyList(ans.body.result.items))
    ELSE Return(PyDict(ans.body.result.items[1]))

\* A request as posted: the JSON-RPC method, the payload's id (none for IRCC), the answer.
Posted(method, id, ans) == [method |-> method, id |-> id, answer |-> ans, params |-> <<>>]

\* A request that never increments the counter on a failed exchange.
Http_request_CountSuccessOnly(rid, method, ans) ==
    LET out == Respond(ans)
    IN  [rid |-> IF out.kind = "raise" THEN rid ELSE rid + 1,
         reqs |-> <<Posted(method, Code(rid + 1), ans)>>,
         out |-> out]

\* A request that returns the result array as it came.
Http_request_NoUnwrap(rid, method, ans) ==
    LET out == Respond(ans)
    IN  [rid |-> rid + 1,
         reqs |-> <<Posted(method, Code(rid + 1), ans)>>,
         out |-> IF out.kind = "return" THEN Return(PyList(ans.body.result.items)) ELSE out]

\* A request that looks for "result" before "error".
Http_request_ResultFirst(rid, method, ans) ==
    LET out == IF ans.net = "ok" /\ ans.status = 200 /\ ans.body.json /\ ans.body.result.t = "list"
               THEN Respond(Ok(Body(NoError, ans.body.result)))
               ELSE Respond(ans)
    IN  [rid |-> rid + 1,
         reqs |-> <<Posted(method, Code(rid + 1), ans)>>,
         out |-> out]

\* Http.request: increments the counter, posts the payload with the new id,
\* and maps the response.  rid is self.request_id at entry.
Http_request(rid, method, ans) ==
    [rid |-> rid + 1,
     reqs |-> <<Posted(method, Code(rid + 1), ans)>>,
     out |-> Respond(ans)]

\* A remote_request that counts itself as a request.
Http_remote_request_Counting(rid, ans) ==
    [rid |-> rid + 1,
     reqs |-> <<Posted("ircc", NoCode, ans)>>,
     out |-> IF ans.net = "Timeout" THEN HttpError(<<"The request timed out.">>, NoCode)
             ELSE IF ans.net = "ConnectionError" THEN HttpError(<<"A connection error occurred">>, NoCode)
             ELSE IF ans.net # "ok" THEN Raise("AttributeError", <<"RequestsException">>)
             ELSE IF ans.status # 200
                 THEN HttpError(<<"Unexpected status code ", ToString(ans.status)>>, NoCode)
             ELSE Return(PyNone)]

\* Http.remote_request: posts the IRCC envelope; succeeds on HTTP 200 alone.
Http_remote_request(rid, ans) ==
    [rid |-> rid,
     reqs |-> <<Posted("ircc", NoCode, ans)>>,
     out |-> IF ans.net = "Timeout" THEN HttpError(<<"The request timed out.">>, NoCode)
             ELSE IF ans.net = "ConnectionError" THEN HttpError(<<"A connection error occurred">>, NoCode)
             ELSE IF ans.net # "ok" THEN Raise("AttributeError", <<"RequestsException">>)
             ELSE IF ans.status # 200
                 THEN HttpError(<<"Unexpected status code ", ToString(ans.status)>>, NoCode)
             ELSE Return(PyNone)]

(***************************************************************************)
(* Error mapper (bravia/errors/errorhandling.py)                           *)
(***************************************************************************)
\* The values of the ErrorCode enum.
ErrorCode ==
    {0, 401, 403, 404, 413, 414, 501, 503, 1, 2, 3, 5, 7, 12, 14, 15,
     40000, 40001, 40002, 40003, 40004, 40005, 40006, 40200, 40201, 40600, 40800, 40801,
     41000, 41001, 41002, 41003, 41011, 41012, 41013, 41014, 41015,
     41020, 41021, 41022, 41023, 41024, 41400, 41401, 41402, 41403, 42400}

\* The entries of error_messages that hold a "{0}" placeholder.
TemplatesWithDetail == {0, 1, 40006}

\* get_error_message: ErrorCode(error_code) raises ValueError for a value outside
\* the enum, and the handler catches TypeError only.
get_error_message(error_code, additional_message) ==
    IF error_code # NoCode /\ error_code[1] \notin ErrorCode
    THEN Raise("ValueError", <<"not a valid ErrorCode">>)
    ELSE LET known == IF error_code = NoCode THEN 0 ELSE error_code[1]
         IN  Return(PyStr(IF known \in TemplatesWithDetail
                          THEN <<"message ", ToString(known), ": ">> \o additional_message
                          ELSE <<"message ", ToString(known)>>))

\* "raise ApiError(get_error_message(err.error_code, str(err))) from None"
RaiseApiError(err) ==
    LET m == get_error_message(err.error_code, err.text)
    IN  IF m.kind = "raise" THEN m ELSE Raise("ApiError", m.val.s)

(***************************************************************************)
(* Versions (packaging.version, as braviaclient.py uses it)                *)
(***************************************************************************)
DigitVal == [c \in {"0", "1", "2", "3", "4", "5", "6", "7", "8", "9"} |->
                CASE c = "0" -> 0 [] c = "1" -> 1 [] c = "2" -> 2 [] c = "3" -> 3 [] c = "4" -> 4
                  [] c = "5" -> 5 [] c = "6" -> 6 [] c = "7" -> 7 [] c = "8" -> 8 [] c = "9" -> 9]

InvalidVersion == [ok |-> FALSE, release |-> <<>>]

\* The release segment of a version string: its dot-separated decimal numbers.
RECURSIVE ParseFrom(_, _, _, _, _)
ParseFrom(str, i, cur, has, acc) ==
    IF i > Len(str) THEN (IF has THEN [ok |-> TRUE, release |-> Append(acc, cur)] ELSE InvalidVersion)
    ELSE IF str[i] = "." THEN (IF has THEN ParseFrom(str, i + 1, 0, FALSE, Append(acc, cur))
                               ELSE InvalidVersion)
    ELSE IF str[i] \in DOMAIN DigitVal THEN ParseFrom(str, i + 1, cur * 10 + DigitVal[str[i]], TRUE, acc)
    ELSE InvalidVersion

\* version.parse
version_parse(str) == ParseFrom(str, 1, 0, FALSE, <<>>)

\* Version._key drops the trailing zeros of the release before comparing.
RECURSIVE StripZeros(_)
StripZeros(r) ==
    IF r # <<>> /\ r[Len(r)] = 0 THEN StripZeros(SubSeq(r, 1, Len(r) - 1)) ELSE r

\* Python's tuple order: the first differing component decides, a proper prefix is less.
RECURSIVE TupleLess(_, _)
TupleLess(a, b) ==
    IF b = <<>> THEN FALSE
    ELSE IF a = <<>> THEN TRUE
    ELSE IF a[1] # b[1] THEN a[1] < b[1]
    ELSE TupleLess(Tail(a), Tail(b))

VersionLess(a, b) == TupleLess(StripZeros(a), StripZeros(b))

\* A comparison that takes "4.0.0" itself as compatible.
Incompatible_UpperInclusive(release) ==
    \/ VersionLess(<<4, 0, 0>>, release)
    \/ VersionLess(release, <<3, 0, 0>>)

\* "parse(v) >= parse('4.0.0') or parse(v) < parse('3.0.0')"
Incompatible(release) ==
    \/ ~VersionLess(release, <<4, 0, 0>>)
    \/ VersionLess(release, <<3, 0, 0>>)

(***************************************************************************)
(* System.get_interface_information and BraviaClient.initialize            *)
(***************************************************************************)
\* util.coalesce_none_or_empty, on a field read with dict.get
coalesce_none_or_empty(f) ==
    IF f.p # "str" \/ f.s = <<>> THEN PyNone ELSE PyStr(f.s)

\* A call's effect: the counter after it, the requests it posted, how it ended.
Effect(rid, reqs, out) == [rid |-> rid, reqs |-> reqs, out |-> out]

\* System.get_interface_information; the value returned stands for
\* interface_info["interface_version"].
get_interface_information(rid, ans) ==
    Only({ IF r.out.kind = "raise"
           THEN Effect(r.rid, r.reqs, IF r.out.exc = "HttpError" THEN RaiseApiError(r.out) ELSE r.out)
           ELSE IF r.out.val.t # "dict"
           THEN Effect(r.rid, r.reqs, Raise("AttributeError", <<"get">>))
           ELSE Effect(r.rid, r.reqs, Return(coalesce_none_or_empty(r.out.val.items[1].interfaceVersion)))
           : r \in {Http_request(rid, "getInterfaceInformation", ans)} })

\* The version check of initialize(), on the reported version string.  A string
\* packaging cannot parse is a LegacyVersion (less than every version) where
\* the installed packaging has one, and raises InvalidVersion where it has not.
VersionCheck(api_version, legacy) ==
    LET v == version_parse(api_version.s)
    IN  IF api_version.t = "None" THEN Raise("ApiError", <<"the device did not indicate its API version">>)
        ELSE IF ~v.ok THEN (IF legacy THEN Raise("ApiError", <<"incompatible API version">>)
                            ELSE Raise("InvalidVersion", <<"Invalid version">>))
        ELSE IF Incompatible(v.release) THEN Raise("ApiError", <<"incompatible API version">>)
        ELSE Return(PyNone)

\* The effect of initialize() with the flag it leaves; init_reqs and init_raised
\* tell the requests initialize() posted and whether it raised, nested the
\* library calls made on the way with their outcomes.
InitEffect(flag, e) ==
    [initialized |-> flag, rid |-> e.rid, reqs |-> e.reqs, out |-> e.out,
     init_reqs |-> Len(e.reqs), init_raised |-> e.out.kind = "raise", nested |-> <<>>]

\* The effect of a call that does not pass through initialize().
Plain(flag, e) ==
    [initialized |-> flag, rid |-> e.rid, reqs |-> e.reqs, out |-> e.out,
     init_reqs |-> 0, init_raised |-> FALSE, nested |-> <<>>]

\* The effect of a facade after initialize() (effect i) returned: it went on to
\* post reqs and ended with out, leaving the counter at rid.
After(i, rid, reqs, out) ==
    [initialized |-> i.initialized, rid |-> rid, reqs |-> i.reqs \o reqs, out |-> out,
     init_reqs |-> i.init_reqs, init_raised |-> FALSE, nested |-> <<>>]

\* An initializer that asks the device on every call.
initialize_NoFlagCheck(flag, rid, ans, legacy) ==
    LET g == get_interface_information(rid, ans)
        c == VersionCheck(g.out.val, legacy)
    IN  IF g.out.kind = "raise" THEN InitEffect(flag, g)
        ELSE InitEffect(flag \/ c.kind = "return", Effect(g.rid, g.reqs, c))

\* An initializer that checks the device again on every call.
initialize_Recheck(flag, rid, ans, legacy) ==
    LET g == get_interface_information(rid, ans)
        c == VersionCheck(g.out.val, legacy)
    IN  IF g.out.kind = "raise" THEN InitEffect(FALSE, g)
        ELSE InitEffect(c.kind = "return", Effect(g.rid, g.reqs, c))

\* An initializer that sets the flag whether or not the check passed.
initialize_FlagOnFailure(flag, rid, ans, legacy) ==
    IF flag THEN InitEffect(TRUE, Effect(rid, <<>>, Return(PyNone)))
    ELSE Only({ IF g.out.kind = "raise"
                THEN [InitEffect(FALSE, Effect(g.rid, g.reqs,
                         IF g.out.exc = "HttpError"
                         THEN Raise("ApiError", <<"Unable to verify API version compatibility">>)
                         ELSE g.out)) EXCEPT !.initialized = TRUE]
                ELSE Only({ [InitEffect(c.kind = "return", Effect(g.rid, g.reqs, c))
                               EXCEPT !.initialized = TRUE]
                            : c \in {VersionCheck(g.out.val, legacy)} })
                : g \in {get_interface_information(rid, ans)} })

\* BraviaClient.initialize
initialize(flag, rid, ans, legacy) ==
    IF flag THEN InitEffect(TRUE, Effect(rid, <<>>, Return(PyNone)))
    ELSE Only({ IF g.out.kind = "raise"
                THEN InitEffect(FALSE, Effect(g.rid, g.reqs,
                         IF g.out.exc = "HttpError"
                         THEN Raise("ApiError", <<"Unable to verify API version compatibility">>)
                         ELSE g.out))
                ELSE Only({ InitEffect(c.kind = "return", Effect(g.rid, g.reqs, c))
                            : c \in {VersionCheck(g.out.val, legacy)} })
                : g \in {get_interface_information(rid, ans)} })

(***************************************************************************)
(* Domain facades                                                          *)
(***************************************************************************)
\* "except HttpError as err: raise ApiError(get_error_message(...))"; any other
\* exception of Http.request propagates.
MapHttpError(out) ==
    IF out.kind = "raise" /\ out.exc = "HttpError" THEN RaiseApiError(out) ELSE out

\* A facade that posts its request without passing through initialize().
set_power_status_NoInitialize(flag, rid, arg, a1, a2, legacy) ==
    LET r == Http_request(rid, "setPowerStatus", a2)
    IN  IF arg # "valid" THEN Plain(flag, Effect(rid, <<>>, Raise(arg, <<"power_state">>)))
        ELSE Plain(flag, Effect(r.rid, r.reqs,
                 IF r.out.kind = "raise" THEN MapHttpError(r.out) ELSE Return(PyNone)))

\* System.set_power_status; arg is "valid" or the exception the validation raises.
set_power_status(flag, rid, arg, a1, a2, legacy) ==
    Only({ IF i.out.kind = "raise" THEN i
           ELSE IF arg # "valid" THEN After(i, i.rid, <<>>, Raise(arg, <<"power_state">>))
           ELSE Only({ After(i, r.rid, r.reqs,
                             IF r.out.kind = "raise" THEN MapHttpError(r.out) ELSE Return(PyNone))
                       : r \in {Http_request(i.rid, "setPowerStatus", a2)} })
           : i \in {initialize(flag, rid, a1, legacy)} })

\* Remote.send_button
send_button(flag, rid, arg, a1, a2, legacy) ==
    Only({ IF i.out.kind = "raise" THEN i
           ELSE IF arg # "valid" THEN After(i, i.rid, <<>>, Raise(arg, <<"button">>))
           ELSE Only({ After(i, r.rid, r.reqs,
                             IF r.out.kind = "raise" THEN MapHttpError(r.out) ELSE Return(PyNone))
                       : r \in {Http_remote_request(i.rid, a2)} })
           : i \in {initialize(flag, rid, a1, legacy)} })

\* ErrorCode.TARGET_NOT_SUPPORTED and ErrorCode.VOLUME_OUT_OF_RANGE
TARGET_NOT_SUPPORTED == 40800
VOLUME_OUT_OF_RANGE == 40801

\* A __set_volume that checks its arguments after the request.
set_volume_ValidateLate(flag, rid, arg, a1, a2, legacy) ==
    Only({ IF i.out.kind = "raise" THEN i
           ELSE Only({ After(i, r.rid, r.reqs,
                             IF r.out.kind = "raise" THEN r.out
                             ELSE IF arg # "valid" THEN Raise(arg, <<"volume">>)
                             ELSE Return(PyNone))
                       : r \in {Http_request(i.rid, "setAudioVolume", a2)} })
           : i \in {initialize(flag, rid, a1, legacy)} })

\* Audio.__set_volume, as set_volume_level, increase_volume and decrease_volume reach it.
set_volume(flag, rid, arg, a1, a2, legacy) ==
    Only({ IF i.out.kind = "raise" THEN i
           ELSE IF arg # "valid" THEN After(i, i.rid, <<>>, Raise(arg, <<"volume">>))
           ELSE Only({ After(i, r.rid, r.reqs,
                             IF r.out.kind = "raise" /\ r.out.exc = "HttpError"
                             THEN (IF r.out.error_code = Code(TARGET_NOT_SUPPORTED)
                                   THEN Raise("TargetNotSupportedError", <<"output not supported">>)
                                   ELSE IF r.out.error_code = Code(VOLUME_OUT_OF_RANGE)
                                   THEN Raise("VolumeOutOfRangeError", <<"volume out of range">>)
                                   ELSE RaiseApiError(r.out))
                             ELSE IF r.out.kind = "raise" THEN r.out
                             ELSE Return(PyNone))
                       : r \in {Http_request(i.rid, "setAudioVolume", a2)} })
           : i \in {initialize(flag, rid, a1, legacy)} })

(***************************************************************************)
(* Encoding and cipher primitives the encryption channel composes          *)
(* (str.encode / bytes.decode, Crypto.Util.Padding, AES in CBC mode,       *)
(* base64, bytes.hex).  A byte is a number in 0..255.                      *)
(***************************************************************************)
\* AES.block_size, and the length of the key Encryption.__init__ draws
BlockSize == 16
KeyLen == 16

Failed(e) == [ok |-> FALSE, exc |-> e, v |-> <<>>]
Done(v) == [ok |-> TRUE, exc |-> "", v |-> v]

\* The UTF-8 bytes of one code point; lone surrogates have none.
EncodeCodePoint(cp) ==
    IF cp < 128 THEN Done(<<cp>>)
    ELSE IF cp < 2048 THEN Done(<<192 + (cp \div 64), 128 + (cp % 64)>>)
    ELSE IF cp >= 55296 /\ cp <= 57343 THEN Failed("UnicodeEncodeError")
    ELSE IF cp < 65536 THEN Done(<<224 + (cp \div 4096), 128 + ((cp \div 64) % 64), 128 + (cp % 64)>>)
    ELSE Done(<<240 + (cp \div 262144), 128 + ((cp \div 4096) % 64), 128 + ((cp \div 64) % 64), 128 + (cp % 64)>>)

\* str.encode("utf-8")
RECURSIVE utf8_encode(_)
utf8_encode(str) ==
    IF \A j \in 1..Len(str) : str[j] < 128 THEN Done(str)
    ELSE LET h == EncodeCodePoint(Head(str))
             t == utf8_encode(Tail(str))
         IN  IF ~h.ok THEN h ELSE IF ~t.ok THEN t ELSE Done(h.v \o t.v)

IsCont(b) == b >= 128 /\ b < 192

\* bytes.decode("utf-8"): strict, no overlong forms, no surrogates.
RECURSIVE utf8_decode(_)
utf8_decode(bytes) ==
    IF \A j \in 1..Len(bytes) : bytes[j] < 128 THEN Done(bytes)
    ELSE LET b == bytes[1]
             n == IF b < 128 THEN 1 ELSE IF b >= 194 /\ b < 224 THEN 2
                  ELSE IF b >= 224 /\ b < 240 THEN 3 ELSE IF b >= 240 /\ b < 245 THEN 4 ELSE 0
             cp == IF n = 1 THEN b
                   ELSE IF n = 2 THEN (b - 192) * 64 + (bytes[2] - 128)
                   ELSE IF n = 3 THEN (b - 224) * 4096 + (bytes[2] - 128) * 64 + (bytes[3] - 128)
                   ELSE (b - 240) * 262144 + (bytes[2] - 128) * 4096 + (bytes[3] - 128) * 64 + (bytes[4] - 128)
             t == utf8_decode(SubSeq(bytes, n + 1, Len(bytes)))
         IN  IF n = 0 \/ Len(bytes) < n THEN Failed("UnicodeDecodeError")
             ELSE IF \E j \in 2..n : ~IsCont(bytes[j]) THEN Failed("UnicodeDecodeError")
             ELSE IF n = 3 /\ (cp < 2048 \/ (cp >= 55296 /\ cp <= 57343)) THEN Failed("UnicodeDecodeError")
             ELSE IF n = 4 /\ (cp < 65536 \/ cp > 1114111) THEN Failed("UnicodeDecodeError")
             ELSE IF ~t.ok THEN t
             ELSE Done(<<cp>> \o t.v)

\* Crypto.Util.Padding.pad, PKCS7: 1..BlockSize bytes, each the number of bytes added.
pad(data) ==
    LET n == BlockSize - (Len(data) % BlockSize)
    IN  data \o [j \in 1..n |-> n]

\* An unpad that always strips one byte.
unpad_OneByte(data) ==
    IF Len(data) = 0 \/ Len(data) % BlockSize # 0 THEN Failed("ValueError")
    ELSE Done(SubSeq(data, 1, Len(data) - 1))

\* Crypto.Util.Padding.unpad, PKCS7
unpad(data) ==
    LET len == Len(data)
        n == data[len]
    IN  IF len = 0 THEN Failed("ValueError")
        ELSE IF len % BlockSize # 0 THEN Failed("ValueError")
        ELSE IF n < 1 \/ n > BlockSize THEN Failed("ValueError")
        ELSE IF \E j \in (len - n + 1)..len : data[j] # n THEN Failed("ValueError")
        ELSE Done(SubSeq(data, 1, len - n))

RECURSIVE Xor(_, _)
Xor(a, b) ==
    IF a = 0 THEN b ELSE IF b = 0 THEN a
    ELSE (((a % 2) + (b % 2)) % 2) + 2 * Xor(a \div 2, b \div 2)

XorBlock(x, y) == [j \in 1..BlockSize |-> Xor(x[j], y[j])]

\* The block cipher stands for AES: a keyed permutation of the 16-byte blocks
\* (add the key bytewise, rotate one place) and its inverse.
EncryptBlock(key, x) == [j \in 1..BlockSize |-> (x[(j % BlockSize) + 1] + key[(j % BlockSize) + 1]) % 256]
DecryptBlock(key, y) == [j \in 1..BlockSize |-> (y[((j + BlockSize - 2) % BlockSize) + 1] - key[j] + 256) % 256]

\* AES.new(key, AES.MODE_CBC, iv).encrypt: each block is xored with the
\* previous ciphertext block (the iv for the first) and enciphered.
RECURSIVE cbc_encrypt(_, _, _)
cbc_encrypt(key, prev, data) ==
    IF data = <<>> THEN <<>>
    ELSE LET c == EncryptBlock(key, XorBlock(SubSeq(data, 1, BlockSize), prev))
         IN  c \o cbc_encrypt(key, c, SubSeq(data, BlockSize + 1, Len(data)))

\* AES.new(key, AES.MODE_CBC, iv).decrypt, on whole blocks
RECURSIVE cbc_decrypt(_, _, _)
cbc_decrypt(key, prev, data) ==
    IF data = <<>> THEN <<>>
    ELSE LET c == SubSeq(data, 1, BlockSize)
         IN  XorBlock(DecryptBlock(key, c), prev) \o cbc_decrypt(key, c, SubSeq(data, BlockSize + 1, Len(data)))

\* base64 works on sextets, 0..63; Pad64 stands for the padding "=".
Pad64 == 64

RECURSIVE Sextets(_)
Sextets(bytes) ==
    IF bytes = <<>> THEN <<>>
    ELSE IF Len(bytes) = 1
    THEN <<(bytes[1] \div 4), (bytes[1] % 4) * 16, Pad64, Pad64>>
    ELSE IF Len(bytes) = 2
    THEN <<(bytes[1] \div 4), (bytes[1] % 4) * 16 + (bytes[2] \div 16), (bytes[2] % 16) * 4, Pad64>>
    ELSE <<(bytes[1] \div 4), (bytes[1] % 4) * 16 + (bytes[2] \div 16),
           (bytes[2] % 16) * 4 + (bytes[3] \div 64), (bytes[3] % 64)>>
         \o Sextets(SubSeq(bytes, 4, Len(bytes)))

RECURSIVE FromSextets(_)
FromSextets(chars) ==
    IF chars = <<>> THEN Done(<<>>)
    ELSE IF Len(chars) < 4 \/ chars[1] = Pad64 \/ chars[2] = Pad64 THEN Failed("binascii.Error")
    ELSE IF chars[3] = Pad64
    THEN (IF chars[4] = Pad64 /\ Len(chars) = 4
          THEN Done(<<chars[1] * 4 + (chars[2] \div 16)>>)
          ELSE Failed("binascii.Error"))
    ELSE IF chars[4] = Pad64
    THEN (IF Len(chars) = 4
          THEN Done(<<chars[1] * 4 + (chars[2] \div 16), (chars[2] % 16) * 16 + (chars[3] \div 4)>>)
          ELSE Failed("binascii.Error"))
    ELSE LET t == FromSextets(SubSeq(chars, 5, Len(chars)))
         IN  IF ~t.ok THEN t
             ELSE Done(<<chars[1] * 4 + (chars[2] \div 16), (chars[2] % 16) * 16 + (chars[3] \div 4),
                         (chars[3] % 4) * 64 + chars[4]>> \o t.v)

\* The ASCII code of a sextet in the base64 alphabet A-Z a-z 0-9 + /, and of "=".
B64Char(x) ==
    IF x < 26 THEN 65 + x ELSE IF x < 52 THEN 97 + (x - 26) ELSE IF x < 62 THEN 48 + (x - 52)
    ELSE IF x = 62 THEN 43 ELSE IF x = 63 THEN 47 ELSE 61

\* The sextet of an ASCII code, -1 for a character outside the alphabet.
B64Index(c) ==
    IF c >= 65 /\ c <= 90 THEN c - 65 ELSE IF c >= 97 /\ c <= 122 THEN c - 97 + 26
    ELSE IF c >= 48 /\ c <= 57 THEN c - 48 + 52
    ELSE IF c = 43 THEN 62 ELSE IF c = 47 THEN 63 ELSE IF c = 61 THEN Pad64 ELSE -1

\* base64.b64encode: the ASCII bytes of the encoding
b64encode(bytes) ==
    LET x == Sextets(bytes) IN [j \in 1..Len(x) |-> B64Char(x[j])]

IsB64(c) == B64Index(c) >= 0

\* base64.b64decode of a str: ASCII only, characters outside the alphabet are
\* dropped, the rest is decoded in groups of four.
b64decode(str) ==
    LET kept == SelectSeq(str, IsB64)
    IN  IF \E j \in 1..Len(str) : str[j] >= 128 THEN Failed("ValueError")
        ELSE FromSextets([j \in 1..Len(kept) |-> B64Index(kept[j])])

HexDigit == <<"0", "1", "2", "3", "4", "5", "6", "7", "8", "9", "a", "b", "c", "d", "e", "f">>

\* bytes.hex()
RECURSIVE hex(_)
hex(bytes) ==
    IF bytes = <<>> THEN <<>>
    ELSE <<HexDigit[(bytes[1] \div 16) + 1], HexDigit[(bytes[1] % 16) + 1]>> \o hex(Tail(bytes))

(***************************************************************************)
(* Encryption (bravia/encryption.py)                                       *)
(***************************************************************************)
\* The values Encryption.__init__ can draw: two draws of a key and an iv.
Draws ==
    { <<[j \in 1..KeyLen |-> (j * 17) % 256], [j \in 1..BlockSize |-> (j * 53 + 1) % 256]>>,
      <<[j \in 1..KeyLen |-> (j * 29 + 200) % 256], [j \in 1..BlockSize |-> 0]>> }
KeyChoices == { d[1] : d \in Draws }
IvChoices == { d[2] : d \in Draws }

\* The public keys the device reports: one RSA.import_key accepts, one it rejects.
ValidPublicKey == <<"M", "I", "I", "B">>
JunkPublicKey == <<"?">>

\* ErrorCode.KEY_DOES_NOT_EXIST
KEY_DOES_NOT_EXIST == 42400

\* Encryption.get_public_key
get_public_key(flag, rid, a1, a2, legacy) ==
    Only({ IF i.out.kind = "raise" THEN i
           ELSE Only({ After(i, r.rid, r.reqs,
                         IF r.out.kind = "raise" /\ r.out.exc = "HttpError"
                         THEN (IF r.out.error_code = Code(KEY_DOES_NOT_EXIST) THEN Return(PyNone)
                               ELSE RaiseApiError(r.out))
                         ELSE IF r.out.kind = "raise" THEN r.out
                         \* '"publicKey" not in response', response being r.out.val
                         ELSE IF r.out.val.t = "None" THEN Raise("TypeError", <<"NoneType is not iterable">>)
                         ELSE IF r.out.val.t = "list" THEN Raise("ApiError", <<"unexpected response format">>)
                         ELSE IF r.out.val.items[1].publicKey.p = "absent"
                         THEN Raise("ApiError", <<"unexpected response format">>)
                         ELSE IF r.out.val.items[1].publicKey.p = "null" THEN Return(PyNone)
                         ELSE Return(PyStr(r.out.val.items[1].publicKey.s)))
                       : r \in {Http_request(i.rid, "getPublicKey", a2)} })
           : i \in {initialize(flag, rid, a1, legacy)} })

\* The wrapped session key: the RSA encryption under public_key of
\* key.hex() + ":" + iv.hex(), base64-encoded.
WrappedKey(public_key, key, iv) ==
    PyStr(<<"RSA[">> \o public_key \o <<"]">> \o hex(key) \o <<":">> \o hex(iv))

\* A handler "except (ApiError, HttpError): return None".
WrapOutcome_CatchBoth(pk, key, iv) ==
    IF pk.kind = "raise" THEN (IF pk.exc \in ApiErrors \cup {"HttpError"} THEN Return(PyNone) ELSE pk)
    ELSE IF pk.val.t = "None" THEN Return(PyNone)
    ELSE IF pk.val.s # ValidPublicKey THEN Raise("ValueError", <<"RSA key format is not supported">>)
    ELSE Return(WrappedKey(pk.val.s, key, iv))

\* The end of get_rsa_encrypted_common_key, from the outcome of get_public_key on.
\* "except [ApiError, HttpError]" names a list: matching any exception against it
\* raises TypeError.
WrapOutcome(pk, key, iv) ==
    IF pk.kind = "raise" THEN Raise("TypeError", <<"catching classes that do not inherit from BaseException">>)
    ELSE IF pk.val.t = "None" THEN Return(PyNone)
    ELSE IF pk.val.s # ValidPublicKey THEN Raise("ValueError", <<"RSA key format is not supported">>)
    ELSE Return(WrappedKey(pk.val.s, key, iv))

\* A get_rsa_encrypted_common_key that remembers the device had no key and does
\* not ask again.
get_rsa_encrypted_common_key_CacheAbsence(flag, rid, key, iv, a1, a2, legacy) ==
    IF "none" \in rsa_returned
    THEN Plain(flag, Effect(rid, <<>>, Return(PyNone)))
    ELSE Only({ [g EXCEPT !.out = Only({ WrapOutcome(pk, key, iv) : pk \in {g.out} }),
                          !.nested = <<[op |-> "get_public_key", out |-> g.out]>>]
                : g \in {get_public_key(flag, rid, a1, a2, legacy)} })

\* A get_rsa_encrypted_common_key that, once keyed, stays keyed: it wraps with
\* the public key it fetched before instead of asking again.
get_rsa_encrypted_common_key_StayKeyed(flag, rid, key, iv, a1, a2, legacy) ==
    IF "key" \in rsa_returned
    THEN Plain(flag, Effect(rid, <<>>, Return(WrappedKey(ValidPublicKey, key, iv))))
    ELSE Only({ [g EXCEPT !.out = Only({ WrapOutcome(pk, key, iv) : pk \in {g.out} }),
                          !.nested = <<[op |-> "get_public_key", out |-> g.out]>>]
                : g \in {get_public_key(flag, rid, a1, a2, legacy)} })

\* Encryption.get_rsa_encrypted_common_key
get_rsa_encrypted_common_key(flag, rid, key, iv, a1, a2, legacy) ==
    Only({ [g EXCEPT !.out = Only({ WrapOutcome(pk, key, iv) : pk \in {g.out} }),
                     !.nested = <<[op |-> "get_public_key", out |-> g.out]>>]
           : g \in {get_public_key(flag, rid, a1, a2, legacy)} })

\* Encryption.aes_encrypt_b64
aes_encrypt_b64(key, iv, message) ==
    LET e == utf8_encode(message.s)
        ciphertext == cbc_encrypt(key, iv, pad(e.v))
        text == utf8_decode(b64encode(ciphertext))
    IN  IF message.t # "str" THEN Raise("TypeError", <<"message must be a str value">>)
        ELSE IF ~e.ok THEN Raise(e.exc, <<"utf-8">>)
        ELSE Return(PyStr(text.v))

\* Encryption.aes_decrypt_b64
aes_decrypt_b64(key, iv, message) ==
    LET decoded_message == b64decode(message.s)
        plain == unpad(cbc_decrypt(key, iv, decoded_message.v))
        text == utf8_decode(plain.v)
    IN  IF message.t # "str" THEN Raise("TypeError", <<"message must be a str value">>)
        ELSE IF ~decoded_message.ok THEN Raise(decoded_message.exc, <<"base64">>)
        \* cipher.decrypt: "Data must be padded to 16 byte boundary in CBC mode"
        ELSE IF Len(decoded_message.v) % BlockSize # 0 THEN Raise("ValueError", <<"block boundary">>)
        ELSE IF ~plain.ok THEN Raise(plain.exc, <<"padding">>)
        ELSE IF ~text.ok THEN Raise(text.exc, <<"utf-8">>)
        ELSE Return(PyStr(text.v))

(***************************************************************************)
(* AppControl (bravia/appcontrol.py)                                       *)
(***************************************************************************)
ILLEGAL_STATE == 7
ENCRYPTION_FAILED == 40002
REQUEST_DUPLICATED == 40003

\* The effect e of a facade that called get_rsa_encrypted_common_key (effect k)
\* on the way.
Nested(e, k) ==
    [e EXCEPT !.nested = <<[op |-> "get_rsa_encrypted_common_key", out |-> k.out]>>]

\* The end of get_text_form, from the outcome of its getTextForm request on.
\* "ErrorCode.ENCRYPTION_ERROR" names no member of the enum: evaluating the elif
\* condition raises AttributeError.
GetTextFormOutcome(out, key, iv) ==
    IF out.kind = "raise" /\ out.exc = "HttpError"
    THEN (IF out.error_code = Code(REQUEST_DUPLICATED) \/ out.error_code = Code(ILLEGAL_STATE)
          THEN Return(PyNone)
          ELSE Raise("AttributeError", <<"ENCRYPTION_ERROR">>))
    ELSE IF out.kind = "raise" THEN out
    \* '"text" not in response'
    ELSE IF out.val.t = "None" THEN Raise("TypeError", <<"NoneType is not iterable">>)
    ELSE IF out.val.t = "list" THEN Raise("ApiError", <<"unexpected response format">>)
    ELSE IF out.val.items[1].text.p = "absent" THEN Raise("ApiError", <<"unexpected response format">>)
    ELSE IF out.val.items[1].text.p # "str" THEN aes_decrypt_b64(key, iv, PyNone)
    ELSE aes_decrypt_b64(key, iv, PyStr(out.val.items[1].text.s))

\* A get_text_form that asks for the text whether or not it has a wrapped key.
get_text_form_NoKeyCheck(flag, rid, key, iv, a1, a2, a3, legacy) ==
    Only({ IF i.out.kind = "raise" THEN i
           ELSE Only({ IF k.out.kind = "raise" THEN Nested(After(i, k.rid, k.reqs, k.out), k)
                       ELSE Only({ Nested(After(i, r.rid, k.reqs \o r.reqs,
                                                GetTextFormOutcome(r.out, key, iv)), k)
                                   : r \in {Http_request(k.rid, "getTextForm", a3)} })
                       : k \in {get_rsa_encrypted_common_key(i.initialized, i.rid, key, iv, a1, a2, legacy)} })
           : i \in {initialize(flag, rid, a1, legacy)} })

\* AppControl.get_text_form.  The initialize() inside get_public_key finds the
\* client initialized and posts nothing.
get_text_form(flag, rid, key, iv, a1, a2, a3, legacy) ==
    Only({ IF i.out.kind = "raise" THEN i
           ELSE Only({ IF k.out.kind = "raise" THEN Nested(After(i, k.rid, k.reqs, k.out), k)
                       ELSE IF k.out.val.t = "None"
                       THEN Nested(After(i, k.rid, k.reqs,
                                         Raise("EncryptionError", <<"no encryption support">>)), k)
                       ELSE Only({ Nested(After(i, r.rid, k.reqs \o r.reqs,
                                                GetTextFormOutcome(r.out, key, iv)), k)
                                   : r \in {Http_request(k.rid, "getTextForm", a3)} })
                       : k \in {get_rsa_encrypted_common_key(i.initialized, i.rid, key, iv, a1, a2, legacy)} })
           : i \in {initialize(flag, rid, a1, legacy)} })

\* An entry of the list get_application_list returns.
App(app_info) ==
    [name |-> coalesce_none_or_empty(app_info.title),
     uri |-> coalesce_none_or_empty(app_info.uri),
     icon |-> coalesce_none_or_empty(app_info.icon)]

\* '"com.sony.dtv.ceb" in app["uri"]', a uri being a sequence of its parts.
IsBuiltin(app) == app.uri.t = "str" /\ \E j \in 1..Len(app.uri.s) : app.uri.s[j] = "com.sony.dtv.ceb"

\* The list get_application_list builds from a response that is a list.
Apps(response, exclude_builtin) ==
    LET all == [j \in 1..Len(response) |-> App(response[j])]
    IN  IF exclude_builtin THEN SelectSeq(all, LAMBDA app : ~IsBuiltin(app)) ELSE all

\* What Http.request returned to get_application_list, as Python sees it: the
\* single result element when it is an array, else the value itself.
AsList(val) ==
    IF val.t = "dict" /\ val.items[1].elements # <<>> THEN PyList(val.items[1].elements[1]) ELSE val

\* AppControl.get_application_list: the request is made outside any try block.
get_application_list(flag, rid, arg, a1, a2, legacy) ==
    Only({ IF i.out.kind = "raise" THEN i
           ELSE IF arg = "TypeError"
           THEN After(i, i.rid, <<>>, Raise("TypeError", <<"exclude_builtin must be a boolean type">>))
           ELSE Only({ After(i, r.rid, r.reqs,
                             IF r.out.kind = "raise" THEN r.out
                             ELSE IF r.out.val.t = "None" THEN Return(PyList(<<>>))
                             ELSE IF AsList(r.out.val).t # "list"
                             THEN Raise("ApiError", <<"unexpected response format">>)
                             ELSE Return(PyList(Apps(AsList(r.out.val).items, arg = "true"))))
                       : r \in {Http_request(i.rid, "getApplicationList", a2)} })
           : i \in {initialize(flag, rid, a1, legacy)} })

\* The end of set_text_form, from the outcome of its setTextForm request on.
SetTextFormOutcome(out) ==
    IF out.kind = "raise" /\ out.exc = "HttpError"
    THEN (IF out.error_code = Code(ILLEGAL_STATE)
          THEN Raise("NoFocusedTextFieldError", <<"no writable text field focused">>)
          ELSE IF out.error_code = Code(ENCRYPTION_FAILED)
          THEN Raise("InternalError", <<"the target device rejected our encryption key">>)
          ELSE RaiseApiError(out))
    ELSE IF out.kind = "raise" THEN out
    ELSE Return(PyNone)

\* AppControl.set_text_form
set_text_form(flag, rid, key, iv, text, a1, a2, a3, legacy) ==
    Only({ IF i.out.kind = "raise" THEN i
           ELSE IF text.t # "str" THEN After(i, i.rid, <<>>, Raise("TypeError", <<"text must be a string type">>))
           ELSE Only({ IF k.out.kind = "raise" THEN Nested(After(i, k.rid, k.reqs, k.out), k)
                       ELSE IF k.out.val.t = "None"
                       THEN Nested(After(i, k.rid, k.reqs,
                                         Raise("EncryptionError", <<"no encryption support">>)), k)
                       ELSE Only({ IF encrypted_text.kind = "raise"
                                   THEN Nested(After(i, k.rid, k.reqs, encrypted_text), k)
                                   ELSE Only({ Nested(After(i, r.rid, k.reqs \o r.reqs,
                                                            SetTextFormOutcome(r.out)), k)
                                               : r \in {Http_request(k.rid, "setTextForm", a3)} })
                                   : encrypted_text \in {aes_encrypt_b64(key, iv, text)} })
                       : k \in {get_rsa_encrypted_common_key(i.initialized, i.rid, key, iv, a1, a2, legacy)} })
           : i \in {initialize(flag, rid, a1, legacy)} })

(***************************************************************************)
(* AvContent (bravia/avcontent.py)                                         *)
(***************************************************************************)
ILLEGAL_ARGUMENT == 3

\* The "cnt" of a getContentList request and the step of "stIdx".
PageSize == 50

\* AvContent.get_content_count
get_content_count(flag, rid, arg, a1, a2, legacy) ==
    Only({ IF i.out.kind = "raise" THEN i
           ELSE IF arg # "valid" THEN After(i, i.rid, <<>>, Raise(arg, <<"source">>))
           ELSE Only({ After(i, r.rid, r.reqs,
                         IF r.out.kind = "raise" /\ r.out.exc = "HttpError"
                         THEN (IF r.out.error_code = Code(ILLEGAL_ARGUMENT) THEN Return(PyInt(0))
                               ELSE RaiseApiError(r.out))
                         ELSE IF r.out.kind = "raise" THEN r.out
                         \* '"count" not in response or type(response["count"]) is not int'
                         ELSE IF r.out.val.t = "None" THEN Raise("TypeError", <<"NoneType is not iterable">>)
                         ELSE IF r.out.val.t = "list" THEN Raise("ApiError", <<"unexpected response format">>)
                         ELSE IF r.out.val.items[1].count.p # "int"
                         THEN Raise("ApiError", <<"unexpected response format">>)
                         ELSE Return(PyInt(r.out.val.items[1].count.s[1])))
                       : r \in {Http_request(i.rid, "getContentCount", a2)} })
           : i \in {initialize(flag, rid, a1, legacy)} })

\* An entry of the list get_content_list returns.
Content(item) ==
    [index |-> item.index, name |-> coalesce_none_or_empty(item.title),
     uri |-> coalesce_none_or_empty(item.uri)]

\* The device's answer to the n-th page request of a call; to a request beyond
\* the enumerated answers it repeats its last answer.
PageAnswer(pages, n) ==
    IF n <= Len(pages) THEN pages[n]
    ELSE IF pages # <<>> THEN pages[Len(pages)]
    ELSE NetFailure("Timeout")

\* The getContentList request with its params "stIdx" and "cnt".
Paged(e, start) ==
    [e EXCEPT !.reqs = [j \in 1..Len(e.reqs) |-> [e.reqs[j] EXCEPT !.params = <<start, PageSize>>]]]

\* A loop that runs while start <= count.
RECURSIVE PageLoop_Inclusive(_, _, _, _, _, _, _)
PageLoop_Inclusive(rid, reqs, content, start, count, pages, n) ==
    IF start > count
    THEN Effect(rid, reqs, IF Len(content) > 0 THEN Return(PyList(content)) ELSE Return(PyNone))
    ELSE Only({
           IF r.out.kind = "raise" /\ r.out.exc = "HttpError"
           THEN Effect(r.rid, reqs \o r.reqs,
                       IF r.out.error_code = Code(ILLEGAL_ARGUMENT) THEN Return(PyNone)
                       ELSE RaiseApiError(r.out))
           ELSE IF r.out.kind = "raise" THEN Effect(r.rid, reqs \o r.reqs, r.out)
           \* "not response or type(response) is not list"
           ELSE IF AsList(r.out.val).t # "list" \/ AsList(r.out.val).items = <<>>
           THEN Effect(r.rid, reqs \o r.reqs, Raise("ApiError", <<"unexpected response format">>))
           ELSE PageLoop_Inclusive(r.rid, reqs \o r.reqs,
                         content \o [j \in 1..Len(AsList(r.out.val).items) |->
                                        Content(AsList(r.out.val).items[j])],
                         start + PageSize, count, pages, n + 1)
           : r \in {Paged(Http_request(rid, "getContentList", PageAnswer(pages, n)), start)} })

\* A loop that puts each page before the pages it already has.
RECURSIVE PageLoop_NewestFirst(_, _, _, _, _, _, _)
PageLoop_NewestFirst(rid, reqs, content, start, count, pages, n) ==
    IF start >= count
    THEN Effect(rid, reqs, IF Len(content) > 0 THEN Return(PyList(content)) ELSE Return(PyNone))
    ELSE Only({
           IF r.out.kind = "raise" /\ r.out.exc = "HttpError"
           THEN Effect(r.rid, reqs \o r.reqs,
                       IF r.out.error_code = Code(ILLEGAL_ARGUMENT) THEN Return(PyNone)
                       ELSE RaiseApiError(r.out))
           ELSE IF r.out.kind = "raise" THEN Effect(r.rid, reqs \o r.reqs, r.out)
           \* "not response or type(response) is not list"
           ELSE IF AsList(r.out.val).t # "list" \/ AsList(r.out.val).items = <<>>
           THEN Effect(r.rid, reqs \o r.reqs, Raise("ApiError", <<"unexpected response format">>))
           ELSE PageLoop_NewestFirst(r.rid, reqs \o r.reqs,
                         [j \in 1..Len(AsList(r.out.val).items) |->
                            Content(AsList(r.out.val).items[j])] \o content,
                         start + PageSize, count, pages, n + 1)
           : r \in {Paged(Http_request(rid, "getContentList", PageAnswer(pages, n)), start)} })

\* The while loop of get_content_list from "start" on: rid, the requests posted
\* and the content collected so far, pages[n] the answer to the n-th page request.
RECURSIVE PageLoop(_, _, _, _, _, _, _)
PageLoop(rid, reqs, content, start, count, pages, n) ==
    IF start >= count
    THEN Effect(rid, reqs, IF Len(content) > 0 THEN Return(PyList(content)) ELSE Return(PyNone))
    ELSE Only({
           IF r.out.kind = "raise" /\ r.out.exc = "HttpError"
           THEN Effect(r.rid, reqs \o r.reqs,
                       IF r.out.error_code = Code(ILLEGAL_ARGUMENT) THEN Return(PyNone)
                       ELSE RaiseApiError(r.out))
           ELSE IF r.out.kind = "raise" THEN Effect(r.rid, reqs \o r.reqs, r.out)
           \* "not response or type(response) is not list"
           ELSE IF AsList(r.out.val).t # "list" \/ AsList(r.out.val).items = <<>>
           THEN Effect(r.rid, reqs \o r.reqs, Raise("ApiError", <<"unexpected response format">>))
           ELSE PageLoop(r.rid, reqs \o r.reqs,
                         content \o [j \in 1..Len(AsList(r.out.val).items) |->
                                        Content(AsList(r.out.val).items[j])],
                         start + PageSize, count, pages, n + 1)
           : r \in {Paged(Http_request(rid, "getContentList", PageAnswer(pages, n)), start)} })

\* AvContent.get_content_list.  The initialize() and the validation inside
\* get_content_count find the client initialized and the source valid.
get_content_list(flag, rid, arg, a1, a2, pages, legacy) ==
    Only({ IF i.out.kind = "raise" THEN i
           ELSE IF arg # "valid" THEN After(i, i.rid, <<>>, Raise(arg, <<"source">>))
           ELSE Only({ IF c.out.kind = "raise" THEN After(i, c.rid, c.reqs, c.out)
                       ELSE IF c.out.val.s[1] = 0 THEN After(i, c.rid, c.reqs, Return(PyNone))
                       ELSE Only({ After(i, l.rid, l.reqs, l.out)
                                   : l \in {PageLoop(c.rid, c.reqs, <<>>, 0, c.out.val.s[1], pages, 1)} })
                       : c \in {get_content_count(i.initialized, i.rid, arg, a1, a2, legacy)} })
           : i \in {initialize(flag, rid, a1, legacy)} })

(***************************************************************************)
(* The inputs of the model                                                 *)
(***************************************************************************)
\* Interface versions the device reports.
V_3_5_0 == <<"3", ".", "5", ".", "0">>
V_3_10_0 == <<"3", ".", "1", "0", ".", "0">>
V_3_0_0 == <<"3", ".", "0", ".", "0">>
V_3 == <<"3">>
V_2_9_9 == <<"2", ".", "9", ".", "9">>
V_4_0_0 == <<"4", ".", "0", ".", "0">>
V_10_0_0 == <<"1", "0", ".", "0", ".", "0">>
V_Empty == <<>>
V_Unparsable == <<"x">>

VersionStrings == {V_3_5_0, V_3_10_0, V_3_0_0, V_3, V_2_9_9, V_4_0_0, V_10_0_0, V_Empty, V_Unparsable}

\* Answers to getInterfaceInformation.
InfoAnswers ==
    CommonAnswers \cup { OkResult(<<InfoObj(StrF(v))>>) : v \in VersionStrings }
                  \cup { OkResult(<<InfoObj(NullF)>>) }

\* Answers to the request initialize() posts on behalf of a facade.
FacadeInfoAnswers ==
    { NetFailure("Timeout"), Ok(Body(IllegalState, ResultAbsent)), OkResult(<<>>), OkResult(<<EmptyObj>>),
      OkResult(<<InfoObj(StrF(V_3_5_0))>>), OkResult(<<InfoObj(StrF(V_4_0_0))>>),
      OkResult(<<InfoObj(StrF(V_Unparsable))>>) }

\* Answers to a facade's own request.
FacadeAnswers ==
    { NetFailure("Timeout"), NetFailure("OtherRequestException"),
      Answer("ok", 500, Body(IllegalState, ResultAbsent)), Ok(Undecodable),
      Ok(Body(IllegalState, ResultAbsent)), Ok(Body(Unmapped, ResultAbsent)),
      OkResult(<<>>), OkResult(<<EmptyObj>>) }

\* Answers to setAudioVolume with the codes __set_volume handles.
VolumeAnswers ==
    { Ok(Body(<<40800, "Target not supported">>, ResultAbsent)),
      Ok(Body(<<40801, "Volume out of range">>, ResultAbsent)) }

\* Answers to getPublicKey.
KeyAnswers ==
    FacadeAnswers \cup
    { Ok(Body(KeyDoesNotExist, ResultAbsent)),
      OkResult(<<KeyObj(StrF(ValidPublicKey))>>),
      OkResult(<<KeyObj(StrF(JunkPublicKey))>>),
      OkResult(<<KeyObj(NullF)>>) }

\* The device's text field holding base64 text that was not encrypted with the
\* session key.
ForeignText == b64encode([j \in 1..BlockSize |-> (j * 7) % 256])

\* The answer to getPublicKey that carries a key RSA.import_key accepts.
ValidKeyAnswer == OkResult(<<KeyObj(StrF(ValidPublicKey))>>)

\* Answers to the getPublicKey request of the text form operations.
TextKeyAnswers ==
    { ValidKeyAnswer, Ok(Body(KeyDoesNotExist, ResultAbsent)), NetFailure("Timeout") }

\* The text the device holds, encrypted by the device with the session key.
DeviceText(key, iv) == aes_encrypt_b64(key, iv, PyStr(<<104, 105>>)).val.s

\* Answers to getTextForm.
TextFormAnswers(key, iv) ==
    { NetFailure("Timeout"),
      Ok(Body(IllegalState, ResultAbsent)),
      Ok(Body(<<REQUEST_DUPLICATED, "Request duplicated">>, ResultAbsent)),
      Ok(Body(<<ENCRYPTION_FAILED, "Encryption failed">>, ResultAbsent)),
      Ok(Body(IllegalArgument, ResultAbsent)),
      Ok(Body(Unmapped, ResultAbsent)),
      OkResult(<<EmptyObj>>),
      OkResult(<<TextObj(StrF(DeviceText(key, iv)))>>),
      OkResult(<<TextObj(StrF(ForeignText))>>) }

\* Answers to setTextForm.
SetTextFormAnswers ==
    { NetFailure("Timeout"),
      Ok(Body(IllegalState, ResultAbsent)),
      Ok(Body(<<ENCRYPTION_FAILED, "Encryption failed">>, ResultAbsent)),
      Ok(Body(IllegalArgument, ResultAbsent)),
      Ok(Body(Unmapped, ResultAbsent)),
      OkResult(<<>>) }

\* Answers to getApplicationList: the failures of any facade request, an empty
\* result, an object where the array of applications should be, and an array of
\* two applications, one of them built in.
AppListAnswers ==
    FacadeAnswers \cup
    { OkResult(<<ArrayOf(<<AppObj(StrF(<<"Netflix">>), StrF(<<"com.sony.dtv.", "netflix">>), NullF),
                          AppObj(StrF(<<>>), StrF(<<"com.sony.dtv.ceb", ".x">>), AbsentF)>>)>>) }

\* Answers to getContentCount: a timeout, a vendor error, an empty result, the
\* code the facade reads as "no such source", with status 200 and with status
\* 500, a count that is no int, and counts
\* that need no page, one page (1 and 50 items) and two pages.
Counts == {0, 1, PageSize, PageSize + 1}
CountAnswers ==
    { NetFailure("Timeout"), Ok(Body(IllegalState, ResultAbsent)), OkResult(<<>>),
      Ok(Body(IllegalArgument, ResultAbsent)), Answer("ok", 500, Body(IllegalArgument, ResultAbsent)),
      OkResult(<<CountObj(StrF(<<"2">>))>>) } \cup
    { OkResult(<<CountObj(IntF(n))>>) : n \in Counts }

\* A page of content as the device sends it: an array of two entries, the
\* second without a title.
PageOf(start) ==
    OkResult(<<ArrayOf(<<ContentObj(IntF(start), StrF(<<"BBC">>), StrF(<<"tv:dvbt?trip=", start>>)),
                         ContentObj(IntF(start + 1), StrF(<<>>), StrF(<<"tv:dvbt?trip=", start + 1>>))>>)>>)
OkPages == { PageOf(0), PageOf(PageSize) }

\* Answers to getContentList.
PageAnswers ==
    OkPages \cup
    { NetFailure("Timeout"), Ok(Body(IllegalArgument, ResultAbsent)),
      Ok(Body(IllegalState, ResultAbsent)), Ok(Body(Unmapped, ResultAbsent)),
      OkResult(<<>>), OkResult(<<EmptyObj>>) }

\* The page requests "count" items take: the loop runs while start < count.
PagesFor(count) == (count + PageSize - 1) \div PageSize

\* The page requests get_content_list goes on to make when getContentCount is
\* answered with a2.
PagesAfter(a2) ==
    Only({ IF c.kind = "return" /\ c.val.t = "dict" /\ c.val.items[1].count.p = "int"
           THEN PagesFor(c.val.items[1].count.s[1]) ELSE 0
           : c \in {Respond(a2)} })

\* The answers n page requests consume: the loop stops at the first page it
\* cannot use, and the answers it does not ask for are not enumerated.
PageRuns(n) ==
    IF n = 0 THEN { <<>> }
    ELSE { s \in UNION { [1..k -> PageAnswers] : k \in 1..n } :
             /\ \A j \in 1..(Len(s) - 1) : s[j] \in OkPages
             /\ Len(s) < n => s[Len(s)] \notin OkPages }

\* Texts handed to set_text_form: a str, a str with a lone surrogate, no str.
Texts == { PyStr(<<104, 105>>), PyStr(<<97, 55296>>), PyNone }

\* Arguments of the validating facades: valid, or rejected with this exception.
ArgClasses == {"valid", "TypeError", "ValueError"}

\* Messages handed to aes_encrypt_b64: str values as code points ("" , "a", "é",
\* "€", a lone surrogate, 15 and 16 ASCII characters) and a value that is no str.
Messages ==
    { PyStr(<<>>), PyStr(<<97>>), PyStr(<<233>>), PyStr(<<8364, 97>>), PyStr(<<97, 55296>>),
      PyStr([j \in 1..15 |-> 96 + j]), PyStr([j \in 1..16 |-> 96 + j]), PyNone }

\* A well-formed base64 text of one block that was not produced with the client's key.
ForeignCiphertext == PyStr(b64encode([j \in 1..BlockSize |-> (j * 7) % 256]))

(***************************************************************************)
(* The state machine                                                       *)
(***************************************************************************)
\* Two Http instances in one process, the first used by two callers at once.
Instances == {"A", "B"}
Callers == {"a1", "a2", "b1"}
InstanceOf(t) == IF t = "b1" THEN "B" ELSE "A"

\* A caller outside Http.request.
Idle == [pc |-> "idle", loaded |-> 0, id |-> 0]

NoCall == [op |-> "", arg |-> PyNone, reqs |-> <<>>, out |-> Return(PyNone), nested |-> <<>>]

Init ==
    /\ request_id = 0
    /\ initialized = FALSE
    /\ \E d \in Draws : aes_common_key = d[1] /\ aes_initialization_vector = d[2]
    /\ sent_ids = <<>>
    /\ init_sent = 0
    /\ init_failed = 0
    /\ rsa_returned = {}
    /\ last = NoCall
    /\ class_request_id = 0
    /\ self_request_id = [c \in Instances |-> NoCode]
    /\ callers = [t \in Callers |-> Idle]
    /\ wire = <<>>
    /\ raced = {}

IsRpc(req) == req.id # NoCode

\* The ids of the JSON-RPC payloads among the posted requests.
IdsOf(reqs) ==
    LET rpc == SelectSeq(reqs, IsRpc) IN [j \in 1..Len(rpc) |-> rpc[j].id[1]]

\* What the get_rsa_encrypted_common_key calls made during a public call returned:
\* "none" for None, "key" for a wrapped key.
RsaReturns(op, e) ==
    LET made == (IF op = "get_rsa_encrypted_common_key" THEN <<[op |-> op, out |-> e.out]>> ELSE <<>>)
                \o e.nested
    IN  { IF made[j].out.val.t = "None" THEN "none" ELSE "key" :
            j \in { k \in 1..Len(made) : /\ made[k].op = "get_rsa_encrypted_common_key"
                                         /\ made[k].out.kind = "return" } }

\* A public call with effect e on the client took place.
Call(op, arg, e) ==
    /\ request_id' = e.rid
    /\ initialized' = e.initialized
    /\ sent_ids' = sent_ids \o IdsOf(e.reqs)
    /\ init_sent' = init_sent + e.init_reqs
    /\ init_failed' = init_failed + (IF e.init_raised THEN 1 ELSE 0)
    /\ rsa_returned' = rsa_returned \cup RsaReturns(op, e)
    /\ last' = [op |-> op, arg |-> arg, reqs |-> e.reqs, out |-> e.out, nested |-> e.nested]
    /\ UNCHANGED caller_vars

\* A call that regenerates the session key on the way.
KeysKept_Regenerate(op) ==
    /\ aes_common_key' \in (IF op = "get_rsa_encrypted_common_key" THEN KeyChoices ELSE {aes_common_key})
    /\ aes_initialization_vector' = aes_initialization_vector

\* No method assigns aes_common_key or aes_initialization_vector after __init__.
KeysKept(op) ==
    /\ aes_common_key' = aes_common_key
    /\ aes_initialization_vector' = aes_initialization_vector

Enabled == request_id < MaxRequests

\* The answers a facade call consumes: one for the request of initialize() (none
\* is posted once initialized), one for its own request (none is posted when
\* initialize() or the validation raises).  Unused answers are not enumerated.
AnyAnswer == NetFailure("Timeout")
InitAnswers == IF initialized THEN {AnyAnswer} ELSE FacadeInfoAnswers
Builds(a1) == IF a1 = OkResult(<<InfoObj(StrF(V_Unparsable))>>) THEN BOOLEAN ELSE {FALSE}
OwnAnswers(arg, a1, legacy, answers) ==
    IF arg = "valid" /\ initialize(initialized, request_id, a1, legacy).out.kind = "return"
    THEN answers ELSE {AnyAnswer}

\* client.http_client.request(...)
HttpRequest ==
    /\ Enabled
    /\ \E ans \in CommonAnswers :
         \E e \in {Plain(initialized, Http_request(request_id, "getPowerStatus", ans))} :
           Call("Http.request", PyNone, e)
    /\ KeysKept("Http.request")

\* client.system.get_interface_information()
GetInterfaceInformation ==
    /\ Enabled
    /\ \E ans \in FacadeInfoAnswers :
         \E e \in {Plain(initialized, get_interface_information(request_id, ans))} :
           Call("get_interface_information", PyNone, e)
    /\ KeysKept("get_interface_information")

\* client.initialize()
Initialize ==
    /\ Enabled
    /\ \E ans \in (IF initialized
                   THEN {AnyAnswer, OkResult(<<InfoObj(StrF(V_4_0_0))>>), OkResult(<<InfoObj(StrF(V_3_5_0))>>)}
                   ELSE InfoAnswers) :
       \E legacy \in Builds(ans) :
         \E e \in {initialize(initialized, request_id, ans, legacy)} :
           Call("initialize", PyNone, e)
    /\ KeysKept("initialize")

\* client.system.set_power_status(power_state)
SetPowerStatus ==
    /\ Enabled
    /\ \E arg \in {"valid", "TypeError"}, a1 \in InitAnswers :
       \E legacy \in Builds(a1) :
       \E a2 \in OwnAnswers(arg, a1, legacy, FacadeAnswers) :
         \E e \in {set_power_status(initialized, request_id, arg, a1, a2, legacy)} :
           Call("set_power_status", PyStr(<<arg>>), e)
    /\ KeysKept("set_power_status")

\* client.remote.send_button(button)
SendButton ==
    /\ Enabled
    /\ \E arg \in {"valid", "TypeError"}, a1 \in InitAnswers :
       \E legacy \in Builds(a1) :
       \E a2 \in OwnAnswers(arg, a1, legacy, FacadeAnswers) :
         \E e \in {send_button(initialized, request_id, arg, a1, a2, legacy)} :
           Call("send_button", PyStr(<<arg>>), e)
    /\ KeysKept("send_button")

\* client.audio.set_volume_level(...), increase_volume(...), decrease_volume(...)
\* with arguments that pass their own type check
SetVolume ==
    /\ Enabled
    /\ \E arg \in ArgClasses, a1 \in InitAnswers :
       \E legacy \in Builds(a1) :
       \E a2 \in OwnAnswers(arg, a1, legacy, FacadeAnswers \cup VolumeAnswers) :
         \E e \in {set_volume(initialized, request_id, arg, a1, a2, legacy)} :
           Call("set_volume", PyStr(<<arg>>), e)
    /\ KeysKept("set_volume")

\* client.encryption.get_public_key()
GetPublicKey ==
    /\ Enabled
    /\ \E a1 \in InitAnswers :
       \E legacy \in Builds(a1) :
       \E a2 \in OwnAnswers("valid", a1, legacy, KeyAnswers) :
         \E e \in {get_public_key(initialized, request_id, a1, a2, legacy)} :
           Call("get_public_key", PyNone, e)
    /\ KeysKept("get_public_key")

\* client.encryption.get_rsa_encrypted_common_key()
GetRsaEncryptedCommonKey ==
    /\ Enabled
    /\ \E a1 \in InitAnswers :
       \E legacy \in Builds(a1) :
       \E a2 \in OwnAnswers("valid", a1, legacy, KeyAnswers) :
         \E e \in {get_rsa_encrypted_common_key(initialized, request_id, aes_common_key, aes_initialization_vector, a1, a2, legacy)} :
           Call("get_rsa_encrypted_common_key", PyNone, e)
    /\ KeysKept("get_rsa_encrypted_common_key")

\* client.encryption.aes_encrypt_b64(message)
AesEncryptB64 ==
    /\ Enabled
    /\ \E message \in Messages :
         \E e \in {Plain(initialized, Effect(request_id, <<>>, aes_encrypt_b64(aes_common_key, aes_initialization_vector, message)))} :
           Call("aes_encrypt_b64", message, e)
    /\ KeysKept("aes_encrypt_b64")

\* client.encryption.aes_decrypt_b64(message), on what aes_encrypt_b64 just
\* returned, on a foreign ciphertext, or on a value that is no str
AesDecryptB64 ==
    /\ Enabled
    /\ \E message \in {ForeignCiphertext, PyNone}
                      \cup (IF last.op = "aes_encrypt_b64" /\ last.out.kind = "return"
                            THEN {last.out.val} ELSE {}) :
         \E e \in {Plain(initialized, Effect(request_id, <<>>, aes_decrypt_b64(aes_common_key, aes_initialization_vector, message)))} :
           Call("aes_decrypt_b64", message, e)
    /\ KeysKept("aes_decrypt_b64")

\* client.appcontrol.get_text_form()
GetTextForm ==
    /\ Enabled
    /\ \E a1 \in InitAnswers :
       \E legacy \in Builds(a1) :
       \E a2 \in OwnAnswers("valid", a1, legacy, TextKeyAnswers) :
       \E a3 \in (IF a2 = ValidKeyAnswer
                  THEN TextFormAnswers(aes_common_key, aes_initialization_vector) ELSE {AnyAnswer}) :
         \E e \in {get_text_form(initialized, request_id, aes_common_key, aes_initialization_vector,
                                  a1, a2, a3, legacy)} :
           Call("get_text_form", PyNone, e)
    /\ KeysKept("get_text_form")

\* client.appcontrol.set_text_form(text)
SetTextForm ==
    /\ Enabled
    /\ \E text \in Texts, a1 \in InitAnswers :
       \E legacy \in Builds(a1) :
       \E a2 \in OwnAnswers(IF text.t = "str" THEN "valid" ELSE "TypeError", a1, legacy, TextKeyAnswers) :
       \E a3 \in (IF a2 = ValidKeyAnswer /\ text = PyStr(<<104, 105>>)
                  THEN SetTextFormAnswers ELSE {AnyAnswer}) :
         \E e \in {set_text_form(initialized, request_id, aes_common_key, aes_initialization_vector,
                                  text, a1, a2, a3, legacy)} :
           Call("set_text_form", text, e)
    /\ KeysKept("set_text_form")

\* client.appcontrol.get_application_list(exclude_builtin)
GetApplicationList ==
    /\ Enabled
    /\ \E arg \in {"true", "false", "TypeError"}, a1 \in InitAnswers :
       \E legacy \in Builds(a1) :
       \E a2 \in OwnAnswers(IF arg = "TypeError" THEN arg ELSE "valid", a1, legacy, AppListAnswers) :
         \E e \in {get_application_list(initialized, request_id, arg, a1, a2, legacy)} :
           Call("get_application_list", PyStr(<<arg>>), e)
    /\ KeysKept("get_application_list")

\* client.avcontent.get_content_count(source)
GetContentCount ==
    /\ Enabled
    /\ \E arg \in ArgClasses, a1 \in InitAnswers :
       \E legacy \in Builds(a1) :
       \E a2 \in OwnAnswers(arg, a1, legacy, CountAnswers) :
         \E e \in {get_content_count(initialized, request_id, arg, a1, a2, legacy)} :
           Call("get_content_count", PyStr(<<arg>>), e)
    /\ KeysKept("get_content_count")

\* client.avcontent.get_content_list(source)
GetContentList ==
    /\ Enabled
    /\ \E arg \in ArgClasses, a1 \in InitAnswers :
       \E legacy \in Builds(a1) :
       \E a2 \in OwnAnswers(arg, a1, legacy, CountAnswers) :
       \E pages \in PageRuns(PagesAfter(a2)) :
         \E e \in {get_content_list(initialized, request_id, arg, a1, a2, pages, legacy)} :
           Call("get_content_list", PyStr(<<arg>>), e)
    /\ KeysKept("get_content_list")

\* The error codes handed to get_error_message: None, codes of the ErrorCode
\* table without and with a "{0}" template, and integers outside the table.
MapperCodes == {NoCode, Code(3), Code(7), Code(1), Code(40006), Code(9999), Code(-1)}

\* The argument of a get_error_message call as recorded in last.arg.
CodeArg(error_code) == [t |-> "code", items |-> <<>>, s |-> error_code]

\* braviaproapi.bravia.errors.get_error_message(error_code, "detail")
GetErrorMessage ==
    /\ Enabled
    /\ \E error_code \in MapperCodes :
         \E e \in {Plain(initialized, Effect(request_id, <<>>, get_error_message(error_code, <<"detail">>)))} :
           Call("get_error_message", CodeArg(error_code), e)
    /\ KeysKept("get_error_message")

Next ==
    \/ HttpRequest
    \/ GetInterfaceInformation
    \/ Initialize
    \/ SetPowerStatus
    \/ SendButton
    \/ SetVolume
    \/ GetPublicKey
    \/ GetRsaEncryptedCommonKey
    \/ AesEncryptB64
    \/ AesDecryptB64
    \/ GetErrorMessage
    \/ GetTextForm
    \/ SetTextForm
    \/ GetApplicationList
    \/ GetContentCount
    \/ GetContentList

Spec == Init /\ [][Next]_vars

(***************************************************************************)
(* Http.request step by step, for callers that share a process             *)
(***************************************************************************)
\* "self.request_id += 1", the read: the instance attribute, or the class
\* attribute while the instance has none.
LoadCounter(t) ==
    /\ callers[t].pc = "idle"
    /\ Len(wire) + Cardinality({u \in Callers : callers[u].pc # "idle"}) < MaxPosts
    /\ callers' = [callers EXCEPT ![t] =
                     [pc |-> "loaded",
                      loaded |-> IF self_request_id[InstanceOf(t)] = NoCode THEN class_request_id
                                 ELSE self_request_id[InstanceOf(t)][1],
                      id |-> 0]]
    /\ raced' = IF \E u \in Callers \ {t} : InstanceOf(u) = InstanceOf(t) /\ callers[u].pc # "idle"
                THEN raced \cup {InstanceOf(t)} ELSE raced
    /\ UNCHANGED <<class_request_id, self_request_id, wire>>
    /\ UNCHANGED client_vars

\* An increment that writes the class attribute.
StoreCounter_OnClass(t) ==
    /\ callers[t].pc = "loaded"
    /\ class_request_id' = callers[t].loaded + 1
    /\ callers' = [callers EXCEPT ![t].pc = "stored"]
    /\ UNCHANGED <<self_request_id, wire, raced>>
    /\ UNCHANGED client_vars

\* An increment that stores the value it read.
StoreCounter_KeepValue(t) ==
    /\ callers[t].pc = "loaded"
    /\ self_request_id' = [self_request_id EXCEPT ![InstanceOf(t)] = Code(callers[t].loaded)]
    /\ callers' = [callers EXCEPT ![t].pc = "stored"]
    /\ UNCHANGED <<class_request_id, wire, raced>>
    /\ UNCHANGED client_vars

\* "self.request_id += 1", the write: always the instance attribute.
StoreCounter(t) ==
    /\ callers[t].pc = "loaded"
    /\ self_request_id' = [self_request_id EXCEPT ![InstanceOf(t)] = Code(callers[t].loaded + 1)]
    /\ callers' = [callers EXCEPT ![t].pc = "stored"]
    /\ UNCHANGED <<class_request_id, wire, raced>>
    /\ UNCHANGED client_vars

\* payload = {..., "id": self.request_id}: the attribute is read again.
BuildPayload(t) ==
    /\ callers[t].pc = "stored"
    /\ callers' = [callers EXCEPT ![t].pc = "built", ![t].id = self_request_id[InstanceOf(t)][1]]
    /\ UNCHANGED <<class_request_id, self_request_id, wire, raced>>
    /\ UNCHANGED client_vars

\* requests.post(...); whatever comes back, the method leaves the counter alone.
Post(t) ==
    /\ callers[t].pc = "built"
    /\ wire' = Append(wire, [instance |-> InstanceOf(t), caller |-> t, id |-> callers[t].id])
    /\ callers' = [callers EXCEPT ![t] = Idle]
    /\ UNCHANGED <<class_request_id, self_request_id, raced>>
    /\ UNCHANGED client_vars

NextCallers ==
    \E t \in Callers :
      \/ LoadCounter(t)
      \/ StoreCounter(t)
      \/ BuildPayload(t)
      \/ Post(t)

SpecCallers == Init /\ [][NextCallers]_vars

(***************************************************************************)
(* Properties                                                              *)
(***************************************************************************)
\* The answer is an HTTP 200 with a decodable body.
Decoded(ans) == ans.net = "ok" /\ ans.status = 200 /\ ans.body.json

\* The answer of the only request the last call posted.
LastAnswer == last.reqs[1].answer

FacadeOps == {"set_power_status", "send_button", "set_volume", "get_public_key",
              "get_rsa_encrypted_common_key"}

\* C1: over any sequence of Http.request calls on one client, whatever each call's
\* outcome, the id in the k-th JSON-RPC payload is k (ids start at 1, strictly
\* increase, are never reused).
C1_IdsCountFromOne ==
    \A k \in 1..Len(sent_ids) : sent_ids[k] = k

C1_Witness ==
    /\ Len(sent_ids) >= 3
    /\ last.op = "Http.request"
    /\ last.out.kind = "raise"

\* C2: for a 200 response with a "result" array and no "error", Http.request
\* returns None for an empty array, the single element for an array of one, and
\* the whole array unchanged for a longer one.
C2_UnwrapRule ==
    (/\ last.op = "Http.request"
     /\ Decoded(LastAnswer)
     /\ LastAnswer.body.error = NoError
     /\ LastAnswer.body.result.t = "list")
    => LET items == LastAnswer.body.result.items
       IN  /\ last.out.kind = "return"
           /\ Len(items) = 0 => last.out.val.t = "None"
           /\ Len(items) = 1 => (last.out.val.t = "dict" /\ last.out.val.items[1] = items[1])
           /\ Len(items) > 1 => (last.out.val.t = "list" /\ last.out.val.items = items)

C2_Witness ==
    /\ last.op = "Http.request"
    /\ Decoded(LastAnswer)
    /\ LastAnswer.body.error = NoError
    /\ LastAnswer.body.result.t = "list"
    /\ Len(LastAnswer.body.result.items) = 1
    /\ last.out.val = PyDict(EmptyObj)

\* C3: whenever the decoded 200 body holds an "error" field [code, message],
\* Http.request raises HttpError with error_code = code and a text that contains
\* message, also when the body holds a "result" field too.
C3_ErrorBodyRaises ==
    (/\ last.op = "Http.request"
     /\ Decoded(LastAnswer)
     /\ LastAnswer.body.error # NoError)
    => /\ last.out.kind = "raise"
       /\ last.out.exc = "HttpError"
       /\ last.out.error_code = Code(LastAnswer.body.error[1])
       /\ \E j \in 1..Len(last.out.text) : last.out.text[j] = LastAnswer.body.error[2]

C3_Witness ==
    /\ last.op = "Http.request"
    /\ Decoded(LastAnswer)
    /\ LastAnswer.body.error = IllegalArgument
    /\ LastAnswer.body.result.t = "list"
    /\ last.out.exc = "HttpError"

\* C4 as stated: BraviaClient.initialize sends at most one getInterfaceInformation
\* request in total over the life of a client.
C4_AtMostOneInitRequest ==
    init_sent <= 1

\* C4, amended: initialize posts exactly one getInterfaceInformation request per
\* call made while uninitialized - one for each initialization that failed, one
\* for the one that succeeded - and none once it has succeeded.
C4_OneRequestPerAttempt ==
    init_sent = init_failed + (IF initialized THEN 1 ELSE 0)

C4_Witness ==
    /\ initialized
    /\ init_failed >= 1
    /\ last.op = "set_power_status"
    /\ Len(last.reqs) = 1
    /\ last.reqs[1].method = "setPowerStatus"

\* C5: once initialize has succeeded the flag never returns to false, and every
\* later initialize() call returns without posting a request or raising,
\* whatever the device would answer.
C5_InitializedForever ==
    [][initialized =>
         /\ initialized'
         /\ init_sent' = init_sent
         /\ (last'.op = "initialize" => (last'.reqs = <<>> /\ last'.out = Return(PyNone)))]_vars

C5_Witness ==
    /\ initialized
    /\ last.op = "initialize"
    /\ last.reqs = <<>>
    /\ last.out = Return(PyNone)
    /\ sent_ids # <<>>

\* The versions among VersionStrings that lie in [3.0.0, 4.0.0) as semantic versions.
CompatibleVersions == {V_3_5_0, V_3_10_0, V_3_0_0, V_3}

\* The answer reports this interface version: one result object with the field a string.
Reports(ans, v) ==
    /\ Decoded(ans)
    /\ ans.body.error = NoError
    /\ ans.body.result.t = "list"
    /\ Len(ans.body.result.items) = 1
    /\ ans.body.result.items[1].interfaceVersion = StrF(v)

\* C6: initialize succeeds iff the device reports a version v with
\* 3.0.0 <= v < 4.0.0 compared numerically by component ("3.5.0", "3.10.0" pass;
\* "2.9.9", "4.0.0", "10.0.0", a missing and an empty version are rejected), and
\* every rejection raises and leaves the client uninitialized.
C6_VersionGate ==
    (last.op = "initialize" /\ last.reqs # <<>>)
    => /\ last.out.kind = "return" <=> \E v \in CompatibleVersions : Reports(LastAnswer, v)
       /\ last.out.kind = "return" => initialized
       /\ last.out.kind = "raise" => ~initialized

C6_Witness ==
    /\ last.op = "initialize"
    /\ last.reqs # <<>>
    /\ Reports(LastAnswer, V_3_10_0)
    /\ initialized

\* C7: every facade passes the session initializer before touching the device:
\* while the client is uninitialized a facade posts no request other than
\* getInterfaceInformation (and that one first), and when the version check
\* fails the facade's own request is not posted.
C7_FacadesPassInitializer ==
    last.op \in FacadeOps
    => /\ ~initialized => \A j \in 1..Len(last.reqs) : last.reqs[j].method = "getInterfaceInformation"
       /\ \A j \in 1..Len(last.reqs) : last.reqs[j].method = "getInterfaceInformation" => j = 1
       /\ Len(last.reqs) <= 2

C7_Witness ==
    /\ last.op = "set_volume"
    /\ last.arg = PyStr(<<"valid">>)
    /\ ~initialized
    /\ Len(last.reqs) = 1
    /\ Reports(LastAnswer, V_4_0_0)

\* The str can be encoded as UTF-8: it holds no lone surrogate.
Encodable(m) == \A j \in 1..Len(m.s) : m.s[j] < 55296 \/ m.s[j] > 57343

\* C8 as stated: for every str s, aes_decrypt_b64(aes_encrypt_b64(s)) == s, at
\* any point of the client's life.
C8_RoundTripEveryStr ==
    (last.op = "aes_encrypt_b64" /\ last.arg.t = "str")
    => /\ last.out.kind = "return"
       /\ aes_decrypt_b64(aes_common_key, aes_initialization_vector, last.out.val) = Return(last.arg)

\* C8, amended: for every str s that can be encoded as UTF-8 (no lone surrogate),
\* aes_decrypt_b64(aes_encrypt_b64(s)) == s, at any point of the client's life.
C8_RoundTripEncodable ==
    /\ (last.op = "aes_encrypt_b64" /\ last.arg.t = "str" /\ Encodable(last.arg))
       => /\ last.out.kind = "return"
          /\ aes_decrypt_b64(aes_common_key, aes_initialization_vector, last.out.val) = Return(last.arg)
    /\ \A m \in Messages :
         (/\ m.t = "str" /\ Encodable(m)
          /\ last.op = "aes_decrypt_b64"
          /\ last.arg = aes_encrypt_b64(aes_common_key, aes_initialization_vector, m).val)
         => last.out = Return(m)

C8_Witness ==
    /\ last.op = "aes_decrypt_b64"
    /\ last.out = Return(PyStr(<<8364, 97>>))
    /\ sent_ids # <<>>

\* C9: the AES key and iv are assigned once, in Encryption.__init__; no call of
\* the library, failing or not, changes them afterwards.
C9_KeyAndIvNeverChange ==
    [][/\ aes_common_key' = aes_common_key
       /\ aes_initialization_vector' = aes_initialization_vector]_vars

C9_Witness ==
    /\ last.op = "aes_encrypt_b64"
    /\ last.out.kind = "return"
    /\ Len(sent_ids) >= 2
    /\ aes_common_key \in KeyChoices
    /\ aes_initialization_vector \in IvChoices

\* The outcome of the get_public_key call get_rsa_encrypted_common_key made.
PublicKeyOutcome == last.nested[1].out

ReturnsNone(out) == out.kind = "return" /\ out.val.t = "None"
ReturnsStr(out) == out.kind = "return" /\ out.val.t = "str"

\* The text ends with key.hex() + ":" + iv.hex().
CarriesKeyAndIv(text) ==
    LET plain == hex(aes_common_key) \o <<":">> \o hex(aes_initialization_vector)
    IN  /\ Len(text) >= Len(plain)
        /\ SubSeq(text, Len(text) - Len(plain) + 1, Len(text)) = plain

OwnRequest(method) == last.reqs # <<>> /\ last.reqs[Len(last.reqs)].method = method

\* The answer to the last request the last call posted.
OwnAnswer == last.reqs[Len(last.reqs)].answer

\* The device answered with an "error" body carrying this vendor code.
VendorError(ans, code) == Decoded(ans) /\ ans.body.error # NoError /\ ans.body.error[1] = code

\* The device answered with an "error" body.
AnyVendorError(ans) == Decoded(ans) /\ ans.body.error # NoError

\* A transport-level failure: requests.post raised, a status other than 200, an
\* undecodable body, a body without "result", a "result" that is no array.
TransportFailure(ans) ==
    \/ ans.net # "ok"
    \/ ans.status # 200
    \/ ~ans.body.json
    \/ (ans.body.error = NoError /\ ans.body.result.t # "list")

\* A success body whose single result object has no field of the expected name,
\* or that has no result object at all.
SuccessWithout(ans, field) ==
    /\ Decoded(ans) /\ ans.body.error = NoError /\ ans.body.result.t = "list"
    /\ \/ ans.body.result.items = <<>>
       \/ (Len(ans.body.result.items) = 1 /\ ans.body.result.items[1][field].p = "absent")

RaisesApiError(out) == out.kind = "raise" /\ out.exc \in ApiErrors

\* C11: get_public_key returns None exactly when the device answers getPublicKey
\* with vendor code 42400; for any other vendor code or a transport failure it
\* raises ApiError, and for a success body without publicKey it raises ApiError.
C11_NoneOnlyFor42400 ==
    (last.op = "get_public_key" /\ OwnRequest("getPublicKey"))
    => /\ ReturnsNone(last.out) <=> VendorError(OwnAnswer, KEY_DOES_NOT_EXIST)
       /\ (AnyVendorError(OwnAnswer) /\ ~VendorError(OwnAnswer, KEY_DOES_NOT_EXIST))
          => RaisesApiError(last.out)
       /\ TransportFailure(OwnAnswer) => RaisesApiError(last.out)
       /\ SuccessWithout(OwnAnswer, "publicKey") => RaisesApiError(last.out)

\* The getPublicKey requests among those the last call posted.
KeyFetches == SelectSeq(last.reqs, LAMBDA r : r.method = "getPublicKey")

\* The device answers getPublicKey with a public key that can be imported.
HasKey(ans) ==
    /\ Decoded(ans) /\ ans.body.error = NoError /\ ans.body.result.t = "list"
    /\ Len(ans.body.result.items) = 1
    /\ ans.body.result.items[1].publicKey = StrF(ValidPublicKey)

\* C12 as stated: every call to get_rsa_encrypted_common_key sends a fresh
\* getPublicKey request, so after a call that returned None a later call made
\* when the device has a key returns a non-None wrapped key.
C12_EveryCallFetches ==
    last.op = "get_rsa_encrypted_common_key"
    => /\ Len(KeyFetches) = 1
       /\ HasKey(OwnAnswer) => ReturnsStr(last.out)

\* C12, amended: every call to get_rsa_encrypted_common_key that gets past the
\* session initializer sends one fresh getPublicKey request, whatever earlier
\* calls returned (a call whose initialize() raises sends none); after a call
\* that returned None every later call sends one, and returns a non-None wrapped
\* key when the device then has a key.
C12_FetchesOnceInitialized ==
    last.op = "get_rsa_encrypted_common_key"
    => /\ Len(KeyFetches) = (IF initialized THEN 1 ELSE 0)
       /\ initialized => OwnRequest("getPublicKey")
       /\ "none" \in rsa_returned => Len(KeyFetches) = 1
       /\ (initialized /\ HasKey(OwnAnswer))
          => (ReturnsStr(last.out) /\ CarriesKeyAndIv(last.out.val.s))

C12_Witness ==
    /\ "none" \in rsa_returned
    /\ last.op = "get_rsa_encrypted_common_key"
    /\ HasKey(OwnAnswer)
    /\ ReturnsStr(last.out)

\* C13 as stated: once get_rsa_encrypted_common_key has returned non-None on a
\* client (Keyed), every later get_rsa_encrypted_common_key call on that client
\* returns non-None too (whenever it returns).
C13_KeyedForever ==
    (last.op = "get_rsa_encrypted_common_key" /\ "key" \in rsa_returned /\ last.out.kind = "return")
    => ReturnsStr(last.out)

\* C13, amended: the client keeps no Keyed state.  After a call of
\* get_rsa_encrypted_common_key returned non-None, a later call still sends its
\* own getPublicKey request and returns non-None if and only if the device again
\* answers it with a public key that can be imported; it returns None when the
\* device then answers 42400.
C13_NoKeyedState ==
    (last.op = "get_rsa_encrypted_common_key" /\ "key" \in rsa_returned)
    => /\ OwnRequest("getPublicKey")
       /\ ReturnsStr(last.out) <=> HasKey(OwnAnswer)
       /\ VendorError(OwnAnswer, KEY_DOES_NOT_EXIST) => ReturnsNone(last.out)

C13_Witness ==
    /\ last.op = "get_rsa_encrypted_common_key"
    /\ "key" \in rsa_returned
    /\ VendorError(OwnAnswer, KEY_DOES_NOT_EXIST)
    /\ ReturnsNone(last.out)

\* The message get_error_message builds from the UNKNOWN template and the detail.
UnknownMessage(detail) == PyStr(<<"message ", "0", ": ">> \o detail)

\* C14: get_error_message is total: for None, for a code of the ErrorCode table
\* and for an integer outside the table it returns a message and never raises;
\* None and the codes outside the table yield the UNKNOWN template with the
\* additional message interpolated.
C14_GetErrorMessageTotal ==
    last.op = "get_error_message"
    => /\ ReturnsStr(last.out)
       /\ (last.arg.s = NoCode \/ last.arg.s[1] \notin ErrorCode)
          => last.out.val = UnknownMessage(<<"detail">>)

\* The device answered with HTTP 200 and a body that is no JSON.
UndecodableBody(ans) == ans.net = "ok" /\ ans.status = 200 /\ ~ans.body.json

\* The facades that map every HttpError of their own request to ApiError.
MappingFacades == {"set_power_status", "send_button", "set_volume", "get_public_key"}

\* C15: for an HTTP 200 answer whose body cannot be decoded as JSON, Http.request
\* raises HttpError with no vendor code, which facades surface as ApiError.
C15_UndecodableIsHttpError ==
    /\ (last.op = "Http.request" /\ UndecodableBody(LastAnswer))
       => (last.out.kind = "raise" /\ last.out.exc = "HttpError" /\ last.out.error_code = NoCode)
    /\ (last.op \in MappingFacades /\ last.reqs # <<>> /\ UndecodableBody(OwnAnswer))
       => RaisesApiError(last.out)

\* C16: every failure Http.request raises for a transport-level condition
\* (timeout, connection failure, other request exception, non-200 status, body
\* without "result", "result" that is no array) is an HttpError whose error_code
\* is None; an HttpError has an error_code only when the device returned an
\* "error" body.
C16_TransportFailuresCarryNoCode ==
    last.op = "Http.request"
    => /\ (TransportFailure(LastAnswer) /\ ~UndecodableBody(LastAnswer))
          => (last.out.kind = "raise" /\ last.out.exc = "HttpError" /\ last.out.error_code = NoCode)
       /\ (last.out.kind = "raise" /\ last.out.exc = "HttpError" /\ last.out.error_code # NoCode)
          => AnyVendorError(LastAnswer)

TextFormOps == {"get_text_form", "set_text_form"}

\* The request a text form operation posts for itself.
TextMethod(op) == IF op = "get_text_form" THEN "getTextForm" ELSE "setTextForm"

\* The methods of the requests the last call posted, in order.
Methods == [j \in 1..Len(last.reqs) |-> last.reqs[j].method]

\* The last call got as far as get_rsa_encrypted_common_key, which ended this way.
RsaOutcome == last.nested[1].out

\* The last call posted getPublicKey and then its own request, in this order and
\* as its last two requests.
KeyThenOwn ==
    /\ Len(Methods) >= 2
    /\ SubSeq(Methods, Len(Methods) - 1, Len(Methods)) = <<"getPublicKey", TextMethod(last.op)>>
    /\ \A j \in 1..(Len(Methods) - 2) : Methods[j] = "getInterfaceInformation"

\* C18 as stated: in get_text_form and set_text_form, when
\* get_rsa_encrypted_common_key returns None the call raises EncryptionError and
\* posts no getTextForm / setTextForm request; when it returns a key the requests
\* are posted in the order getPublicKey, getTextForm / setTextForm.
C18_KeyGatesTextForm ==
    (last.op \in TextFormOps /\ last.nested # <<>>)
    => /\ ReturnsNone(RsaOutcome)
          => /\ last.out.kind = "raise" /\ last.out.exc = "EncryptionError"
             /\ \A j \in 1..Len(Methods) : Methods[j] # TextMethod(last.op)
       /\ ReturnsStr(RsaOutcome) => KeyThenOwn

\* C18, amended: as stated, except that set_text_form with a key available posts
\* setTextForm only for a text that can be encoded as UTF-8; for a text holding a
\* lone surrogate it raises UnicodeEncodeError after getPublicKey and posts no
\* setTextForm.
C18_KeyGatesEncodableText ==
    (last.op \in TextFormOps /\ last.nested # <<>>)
    => /\ ReturnsNone(RsaOutcome)
          => /\ last.out.kind = "raise" /\ last.out.exc = "EncryptionError"
             /\ \A j \in 1..Len(Methods) : Methods[j] # TextMethod(last.op)
       /\ (ReturnsStr(RsaOutcome) /\ (last.op = "set_text_form" => Encodable(last.arg)))
          => KeyThenOwn
       /\ (ReturnsStr(RsaOutcome) /\ last.op = "set_text_form" /\ ~Encodable(last.arg))
          => /\ last.out.kind = "raise" /\ last.out.exc = "UnicodeEncodeError"
             /\ Methods[Len(Methods)] = "getPublicKey"

C18_Witness ==
    /\ last.op = "get_text_form"
    /\ last.nested # <<>>
    /\ ReturnsNone(RsaOutcome)
    /\ last.out.exc = "EncryptionError"
    /\ Methods = <<"getInterfaceInformation", "getPublicKey">>

\* C19: get_text_form maps the outcome of getTextForm as documented: vendor code
\* 40003 or 7 returns None; 40002 raises InternalError; every other vendor code
\* or transport failure raises ApiError; a success body without text raises
\* ApiError.
C19_GetTextFormMapping ==
    (last.op = "get_text_form" /\ OwnRequest("getTextForm"))
    => /\ (VendorError(OwnAnswer, REQUEST_DUPLICATED) \/ VendorError(OwnAnswer, ILLEGAL_STATE))
          => ReturnsNone(last.out)
       /\ VendorError(OwnAnswer, ENCRYPTION_FAILED)
          => (last.out.kind = "raise" /\ last.out.exc = "InternalError")
       /\ (/\ AnyVendorError(OwnAnswer)
           /\ OwnAnswer.body.error[1] \notin {REQUEST_DUPLICATED, ILLEGAL_STATE, ENCRYPTION_FAILED})
          => RaisesApiError(last.out)
       /\ TransportFailure(OwnAnswer) => RaisesApiError(last.out)
       /\ SuccessWithout(OwnAnswer, "text") => RaisesApiError(last.out)

\* The facade operations of the model.
AllFacadeOps ==
    FacadeOps \cup TextFormOps \cup
    {"get_application_list", "get_interface_information", "get_content_count", "get_content_list"}

\* The answer makes Http.request raise HttpError: a timeout or connection
\* failure, a status other than 200, an "error" body, a body without "result".
MakesHttpError(ans) ==
    \/ ans.net \in {"Timeout", "ConnectionError"}
    \/ (ans.net = "ok" /\ ans.status # 200)
    \/ AnyVendorError(ans)
    \/ (Decoded(ans) /\ ans.body.error = NoError /\ ans.body.result.t = "absent")

\* C20: no raw HttpError escapes a facade method (get_application_list
\* included): a request that fails with a transport failure or with a vendor
\* code the call site does not handle raises ApiError or a subclass.
C20_NoRawHttpError ==
    last.op \in AllFacadeOps
    => /\ ~(last.out.kind = "raise" /\ last.out.exc = "HttpError")
       /\ (/\ last.op = "get_application_list" /\ OwnRequest("getApplicationList")
           /\ MakesHttpError(OwnAnswer))
          => RaisesApiError(last.out)

\* The requests with this method among those the last call posted.
Requests(method) == SelectSeq(last.reqs, LAMBDA r : r.method = method)

\* The methods a public operation posts requests with, the request of
\* initialize() apart.
OwnMethods(op) ==
    CASE op = "Http.request" -> {"getPowerStatus"}
      [] op \in {"get_interface_information", "initialize"} -> {"getInterfaceInformation"}
      [] op = "set_power_status" -> {"setPowerStatus"}
      [] op = "send_button" -> {"ircc"}
      [] op = "set_volume" -> {"setAudioVolume"}
      [] op \in {"get_public_key", "get_rsa_encrypted_common_key"} -> {"getPublicKey"}
      [] op \in TextFormOps -> {"getPublicKey", TextMethod(op)}
      [] op = "get_application_list" -> {"getApplicationList"}
      [] op = "get_content_count" -> {"getContentCount"}
      [] op = "get_content_list" -> {"getContentCount", "getContentList"}
      [] OTHER -> {}

\* The page requests the count the device reported to the last call calls for.
PagesCounted ==
    IF Requests("getContentCount") = <<>> THEN 0
    ELSE PagesAfter(Requests("getContentCount")[1].answer)

\* C17 as stated: every public operation of the client issues at most one
\* network call, whether the client is initialized or not.
C17_AtMostOneRequestPerCall == Len(last.reqs) <= 1

\* C17: a public operation posts at most one request with each method, first
\* among them the getInterfaceInformation of initialize() and nothing but that
\* and the methods of its own; only get_content_list repeats a method, with at
\* most one getContentList per 50 items of the count the device reported.
C17_OneRequestPerMethod ==
    /\ \A j \in 1..Len(last.reqs) :
         /\ last.reqs[j].method \in OwnMethods(last.op) \cup {"getInterfaceInformation"}
         /\ last.reqs[j].method = "getInterfaceInformation" => j = 1
         /\ last.reqs[j].method # "getContentList" => Len(Requests(last.reqs[j].method)) = 1
    /\ Len(Requests("getContentList")) <= PagesCounted

C17_Witness ==
    /\ last.op = "get_content_list"
    /\ Methods = <<"getInterfaceInformation", "getContentCount", "getContentList", "getContentList">>
    /\ Requests("getContentCount")[1].answer = OkResult(<<CountObj(IntF(PageSize + 1))>>)
    /\ last.out.kind = "return"

\* PKCS7 unpadding of what the str decrypts to under the client's key fails.
UnpadFails(message) ==
    /\ message.t = "str"
    /\ b64decode(message.s).ok
    /\ Len(b64decode(message.s).v) % BlockSize = 0
    /\ ~unpad(cbc_decrypt(aes_common_key, aes_initialization_vector, b64decode(message.s).v)).ok

\* The device answered the last call's getTextForm request with this "text".
DeviceSentText(ans) ==
    /\ Decoded(ans) /\ ans.body.error = NoError /\ ans.body.result.t = "list"
    /\ Len(ans.body.result.items) = 1
    /\ ans.body.result.items[1].text.p = "str"

\* C21 as stated: aes_decrypt_b64 fails with EncryptionError (an ApiError)
\* whenever PKCS7 unpadding of the decrypted bytes fails, and get_text_form
\* surfaces a bad "text" payload from the device as that error.
C21_UnpadFailureIsEncryptionError ==
    /\ (last.op = "aes_decrypt_b64" /\ UnpadFails(last.arg))
       => (last.out.kind = "raise" /\ last.out.exc = "EncryptionError")
    /\ (last.op = "get_text_form" /\ OwnRequest("getTextForm") /\ DeviceSentText(OwnAnswer)
        /\ UnpadFails(PyStr(OwnAnswer.body.result.items[1].text.s)))
       => (last.out.kind = "raise" /\ last.out.exc = "EncryptionError")

\* The device answered a getContentList request with a page of entries.
PageSucceeds(ans) ==
    /\ Decoded(ans) /\ ans.body.error = NoError /\ ans.body.result.t = "list"
    /\ \/ Len(ans.body.result.items) > 1
       \/ /\ Len(ans.body.result.items) = 1
          /\ ans.body.result.items[1].elements # <<>>
          /\ ans.body.result.items[1].elements[1] # <<>>

\* The entries of such a page.
Entries(ans) ==
    IF Len(ans.body.result.items) = 1 THEN ans.body.result.items[1].elements[1]
    ELSE ans.body.result.items

\* The entries of the first k pages the last call asked for, as get_content_list
\* hands them back.
RECURSIVE Collected(_)
Collected(k) ==
    IF k = 0 THEN <<>>
    ELSE Collected(k - 1) \o
         [j \in 1..Len(Entries(Requests("getContentList")[k].answer)) |->
            [index |-> Entries(Requests("getContentList")[k].answer)[j].index,
             name |-> coalesce_none_or_empty(Entries(Requests("getContentList")[k].answer)[j].title),
             uri |-> coalesce_none_or_empty(Entries(Requests("getContentList")[k].answer)[j].uri)]]

\* The device reported this count to the last call.
CountReported(n) ==
    /\ Requests("getContentCount") # <<>>
    /\ Requests("getContentCount")[1].answer = OkResult(<<CountObj(IntF(n))>>)

\* C22: get_content_list returns None without a getContentList request when the
\* reported count is 0; for a count n >= 1 with every page succeeding it sends
\* exactly ceil(n/50) getContentList requests, in order, with stIdx 0, 50, 100,
\* ... and cnt 50, and returns the pages' entries in request order.
C22_PagingIsExact ==
    \A n \in Counts :
      (last.op = "get_content_list" /\ CountReported(n))
      => /\ n = 0 => /\ Requests("getContentList") = <<>>
                     /\ last.out = Return(PyNone)
         /\ (n >= 1 /\ \A k \in 1..Len(Requests("getContentList")) :
                          PageSucceeds(Requests("getContentList")[k].answer))
            => /\ Len(Requests("getContentList")) * PageSize >= n
               /\ (Len(Requests("getContentList")) - 1) * PageSize < n
               /\ \A k \in 1..Len(Requests("getContentList")) :
                    /\ Requests("getContentList")[k].params = <<(k - 1) * PageSize, PageSize>>
                    /\ Requests("getContentList")[k].id = Code(Requests("getContentCount")[1].id[1] + k)
               /\ last.out = Return(PyList(Collected(Len(Requests("getContentList")))))

C22_Witness ==
    /\ last.op = "get_content_list"
    /\ CountReported(PageSize + 1)
    /\ Len(Requests("getContentList")) = 2
    /\ Requests("getContentList")[1].answer = PageOf(PageSize)
    /\ Requests("getContentList")[2].answer = PageOf(0)
    /\ last.out.kind = "return"
    /\ Len(last.out.val.items) = 4

\* The answer to the last getContentList request of the last call.
LastPage == Requests("getContentList")[Len(Requests("getContentList"))].answer

\* C30: when a getContentList page request fails with vendor code 3 at any page
\* get_content_list returns None and discards the entries collected so far; any
\* other failure at any page raises ApiError; no partial list is ever returned.
C30_PageFailureEndsTheList ==
    (last.op = "get_content_list" /\ Requests("getContentList") # <<>>)
    => /\ VendorError(LastPage, ILLEGAL_ARGUMENT) => last.out = Return(PyNone)
       /\ (~PageSucceeds(LastPage) /\ ~VendorError(LastPage, ILLEGAL_ARGUMENT))
          => RaisesApiError(last.out)
       /\ (last.out.kind = "return" /\ last.out.val.t = "list")
          => /\ \A k \in 1..Len(Requests("getContentList")) :
                  PageSucceeds(Requests("getContentList")[k].answer)
             /\ last.out.val.items = Collected(Len(Requests("getContentList")))

\* The ids of the payloads this instance's callers posted, in order.
IdsOn(c) ==
    [j \in 1..Len(SelectSeq(wire, LAMBDA m : m.instance = c)) |->
       SelectSeq(wire, LAMBDA m : m.instance = c)[j].id]

\* C23: the request id counter is per Http instance: two clients in one process
\* each send ids 1, 2, 3, ... (each used by one caller at a time), a request on
\* one never changes the next id of the other, and the class attribute
\* request_id = 0 is never mutated.
C23_CounterPerInstance ==
    /\ [](/\ class_request_id = 0
          /\ \A c \in Instances \ raced : \A k \in 1..Len(IdsOn(c)) : IdsOn(c)[k] = k)
    /\ [][\A c \in Instances :
            self_request_id'[c] # self_request_id[c]
            => \E t \in Callers : InstanceOf(t) = c /\ callers[t].pc = "loaded"
                                  /\ callers'[t].pc = "stored"]_vars

C23_Witness ==
    /\ raced = {}
    /\ IdsOn("A") = <<1, 2>>
    /\ IdsOn("B") = <<1, 2>>
    /\ wire[1].instance # wire[2].instance

\* C24: callers that use one client concurrently can send two requests with
\* the same id, the counter being incremented and read into the payload in
\* separate steps; ids repeat on an instance only once two callers have been
\* inside request() at the same time.
C24_DuplicatesNeedARace ==
    \A i, j \in 1..Len(wire) :
      (i < j /\ wire[i].instance = wire[j].instance /\ wire[i].id = wire[j].id)
      => wire[i].instance \in raced

\* Both callers incremented before either built its payload: both send id 2.
C24_Witness ==
    /\ Len(wire) = 2
    /\ wire[1].caller # wire[2].caller
    /\ wire[1].instance = "A" /\ wire[2].instance = "A"
    /\ wire[1].id = 2 /\ wire[2].id = 2

\* C25: get_rsa_encrypted_common_key returns None when the get_public_key call
\* it makes raises ApiError or HttpError, instead of propagating an exception.
C25_NoneWhenPublicKeyRaises ==
    (/\ last.op = "get_rsa_encrypted_common_key"
     /\ last.nested # <<>>
     /\ PublicKeyOutcome.kind = "raise"
     /\ PublicKeyOutcome.exc \in ApiErrors \cup {"HttpError"})
    => ReturnsNone(last.out)

\* The public operations that call BraviaClient.initialize first.
InitializingOps == (AllFacadeOps \ {"get_interface_information"}) \cup {"initialize"}

\* C26: a failed initialize leaves the client uninitialized and caches nothing:
\* a facade call on an uninitialized client, after however many failures, sends
\* a new getInterfaceInformation request first, initializes the client if the
\* device then reports a compatible version, and leaves it uninitialized if
\* initialize fails again.
C26_FailedInitializeRetries ==
    [][(~initialized /\ last'.op \in InitializingOps)
       => /\ last'.reqs # <<>>
          /\ last'.reqs[1].method = "getInterfaceInformation"
          /\ init_sent' = init_sent + 1
          /\ (\E v \in CompatibleVersions : Reports(last'.reqs[1].answer, v)) => initialized'
          /\ init_failed' > init_failed => ~initialized']_vars

C26_Witness ==
    /\ init_failed >= 2
    /\ initialized
    /\ last.op = "get_content_count"
    /\ Len(last.reqs) = 2
    /\ last.reqs[1].method = "getInterfaceInformation"
    /\ Reports(last.reqs[1].answer, V_3_5_0)

\* The facades of the model that validate an argument.
ValidatingOps ==
    {"set_power_status", "send_button", "set_volume", "get_application_list", "set_text_form",
     "get_content_count", "get_content_list"}

\* The last call was made with an argument the facade's validation rejects.
InvalidArgument ==
    IF last.op = "set_text_form" THEN last.arg.t # "str"
    ELSE last.arg \in {PyStr(<<"TypeError">>), PyStr(<<"ValueError">>)}

\* C27: a facade call rejected for an invalid argument never sends the facade's
\* own request to the device: it posts nothing but the request of initialize()
\* and, when that succeeds, ends with the TypeError or ValueError of the
\* validation.
C27_RejectedCallSendsNothing ==
    (last.op \in ValidatingOps /\ InvalidArgument)
    => /\ \A j \in 1..Len(last.reqs) : last.reqs[j].method = "getInterfaceInformation"
       /\ last.out.kind = "raise"
       /\ initialized => last.out.exc \in {"TypeError", "ValueError"}

C27_Witness ==
    /\ last.op = "set_volume"
    /\ last.arg = PyStr(<<"ValueError">>)
    /\ last.out.exc = "ValueError"
    /\ Len(last.reqs) = 1
    /\ Len(sent_ids) >= 2

\* C29: Http.remote_request, and so Remote.send_button on an initialized
\* client, leaves the JSON-RPC request counter unchanged and posts no JSON-RPC
\* id, so the ids of JSON-RPC requests stay consecutive whatever button presses
\* come between them; the press succeeds exactly when the HTTP status is 200,
\* whatever the body.
C29_ButtonPressLeavesCounter ==
    /\ [](\A k \in 1..Len(sent_ids) : sent_ids[k] = k)
    /\ [][(initialized /\ last'.op = "send_button")
          => /\ request_id' = request_id
             /\ sent_ids' = sent_ids
             /\ last'.arg = PyStr(<<"valid">>)
                => /\ Len(last'.reqs) = 1
                   /\ last'.reqs[1].method = "ircc"
                   /\ last'.reqs[1].id = NoCode
                   /\ (last'.out.kind = "return")
                      <=> (last'.reqs[1].answer.net = "ok" /\ last'.reqs[1].answer.status = 200)]_vars

C29_Witness ==
    /\ last.op = "send_button"
    /\ last.out.kind = "return"
    /\ Len(last.reqs) = 1
    /\ ~last.reqs[1].answer.body.json
    /\ request_id = 2
    /\ sent_ids = <<1, 2>>

\* The facades of the model whose handling of single vendor codes works as
\* written: None for 42400, dedicated exceptions for 40800 and 40801, 0 for 3.
PerCodeFacades == {"get_public_key", "set_volume", "get_content_count"}

\* The exceptions the facades raise for single vendor codes.
PerCodeErrors == {"TargetNotSupportedError", "VolumeOutOfRangeError", "NoFocusedTextFieldError",
                  "InternalError", "EncryptionError"}

\* The call raised HttpError without a vendor code.
HttpErrorNoCode(out) == out.kind = "raise" /\ out.exc = "HttpError" /\ out.error_code = NoCode

\* C28: Http.request checks a response in the order request exception, HTTP
\* status, JSON decoding, "error" field, "result" field: an answer with a status
\* other than 200 raises HttpError without a code whatever its body holds, an
\* undecodable 200 body never reaches the "error" or "result" handling, and an
\* "error" field wins over a "result" field.  A facade therefore surfaces a
\* non-200 answer as plain ApiError even when its body carries a vendor code the
\* facade handles.
C28_ResponseCheckOrder ==
    /\ (last.op = "Http.request" /\ LastAnswer.net = "ok")
       => /\ LastAnswer.status # 200 => HttpErrorNoCode(last.out)
          /\ (LastAnswer.status = 200 /\ ~LastAnswer.body.json)
             => (last.out.kind = "raise" /\ last.out.error_code = NoCode)
          /\ (Decoded(LastAnswer) /\ LastAnswer.body.error # NoError)
             => (last.out.kind = "raise" /\ last.out.error_code = Code(LastAnswer.body.error[1]))
          /\ (Decoded(LastAnswer) /\ LastAnswer.body.error = NoError
              /\ LastAnswer.body.result.t = "absent")
             => HttpErrorNoCode(last.out)
    /\ (last.op \in PerCodeFacades /\ initialized /\ last.reqs # <<>>
        /\ OwnAnswer.net = "ok" /\ OwnAnswer.status # 200)
       => (last.out.kind = "raise" /\ last.out.exc = "ApiError")
    /\ (last.op \in AllFacadeOps \ {"send_button"} /\ initialized /\ last.reqs # <<>>
        /\ OwnAnswer.net = "ok" /\ OwnAnswer.status # 200)
       => (last.out.kind = "raise" /\ last.out.exc \notin PerCodeErrors)

C28_Witness ==
    /\ last.op = "get_content_count"
    /\ OwnRequest("getContentCount")
    /\ OwnAnswer = Answer("ok", 500, Body(IllegalArgument, ResultAbsent))
    /\ last.out.exc = "ApiError"

====
